---- MODULE Spec2Model ----
(***************************************************************************)
(* Model of the acquisition engine of the Klamath CLS control software:    *)
(* the worker thread Acquisition.run with its three capture functions      *)
(* (snap_acquisition, video_acquisition, z_stack_acquisition), the abort   *)
(* handlers that the control thread runs, and the camera that fills the    *)
(* circular buffer.  One action models one step of the worker between two  *)
(* reads of the shared abort flag.                                         *)
(***************************************************************************)
EXTENDS Integers, Sequences, FiniteSets, TLC

----------------------------------------------------------------------------
(* Bounds of the model *)

\* rows of region_settings_list explored (sample_dimension is 50 in the source)
SampleDim == 1
\* slots per row explored (region_dimension is 100 in the source)
RegionDim == 2
\* largest num_time_points explored
MaxTimePoints == 2
\* largest |z_end - z_start| explored (step_size is 1, so also the frames of a z-stack)
MaxZRange == 2
\* a camera that stalls does so after at most this many frames of a sequence
MaxStallAfter == 0
\* a camera that still delivers is polled empty at most this many times in a row
MaxSlowPolls == 1
\* frames the camera puts into the circular buffer ahead of the worker
MaxBacklog == 2
\* iterations of the busy wait between two time points
MaxWaitTicks == 1

(* Program constants *)

\* consecutive empty polls tolerated by a drain loop: `if timeout > 500'
TimeoutThreshold == 500
\* ceiling of the lightsheet framerate: min(..., 40)
FramerateCeiling == 40
\* lightsheet_readout_framerate set by SPIMGalvoCommands.__init__
DefaultLightsheetFramerate == 30
\* the timeout counter of a drain that never ends is only followed up to this value
TimeoutCap == TimeoutThreshold + 3

----------------------------------------------------------------------------
(* Helpers *)

Min(a, b) == IF a < b THEN a ELSE b

Abs(a) == IF a < 0 THEN 0 - a ELSE a

\* np.round(n / d) for n >= 0, d > 0: round half to even
NpRound(n, d) ==
    LET q == n \div d
        r == n % d
    IN  IF 2 * r < d THEN q
        ELSE IF 2 * r > d THEN q + 1
        ELSE IF q % 2 = 0 THEN q ELSE q + 1

\* a channel test that only asks whether the region lists any channel at all
InListNonEmpty(channel, list) == list # <<>>

\* Python's `channel in some_list'
InList(channel, list) == \E i \in 1..Len(list) : list[i] = channel

NoDuplicates(list) == \A i, j \in 1..Len(list) : list[i] = list[j] => i = j

----------------------------------------------------------------------------
(* The plan: AcquisitionSettings and RegionSettings *)

\* an unset slot of region_settings_list (the source stores the integer 0)
Unset ==
    [committed |-> FALSE,
     snap_boolean |-> FALSE, snap_channel_list |-> <<>>,
     video_boolean |-> FALSE, video_channel_list |-> <<>>,
     video_duration_in_seconds |-> 0,
     z_stack_boolean |-> FALSE, z_stack_channel_list |-> <<>>,
     z_start_position |-> 0, z_end_position |-> 0, step_size |-> 1]

RegionSettings(snap, video, zstack) ==
    [committed |-> TRUE,
     snap_boolean |-> snap # <<>>, snap_channel_list |-> snap,
     video_boolean |-> video # <<>>, video_channel_list |-> video,
     video_duration_in_seconds |-> 1,
     z_stack_boolean |-> zstack # <<>>, z_stack_channel_list |-> zstack,
     z_start_position |-> 0, z_end_position |-> MaxZRange, step_size |-> 1]

\* a region with every modality disabled: legal, produces no image
IdleRegion == [RegionSettings(<<>>, <<>>, <<>>) EXCEPT !.snap_channel_list = <<"GFP">>]

SnapRegion == RegionSettings(<<"BF", "GFP">>, <<>>, <<>>)

RegionChoices ==
    { SnapRegion,
      RegionSettings(<<>>, <<"BF", "GFP">>, <<"GFP">>),
      RegionSettings(<<>>, <<>>, <<"RFP", "GFP">>),
      RegionSettings(<<"BF">>, <<"GFP">>, <<>>),
      RegionSettings(<<"GFP", "CFP">>, <<>>, <<>>),
      IdleRegion }

ChannelOrders ==
    { <<"GFP", "BF", "RFP">>, <<"BF", "GFP">>, <<"GFP", "BF", "GFP">> }

Slots == (0..(SampleDim - 1)) \X (0..(RegionDim - 1))

\* region_settings_list with the slots of `set' holding `region', the others unset
Grid(set, region) ==
    [s \in 0..(SampleDim - 1) |->
        [r \in 0..(RegionDim - 1) |-> IF <<s, r>> \in set THEN region ELSE Unset]]

Settings(order, grid, tpb, ntp, lsrm) ==
    [channel_order_list |-> order,
     region_settings_list |-> grid,
     time_points_boolean |-> tpb,
     num_time_points |-> ntp,
     lightsheet_mode_boolean |-> lsrm,
     z_scan_speed |-> 30]

StandardOrder == <<"GFP", "BF", "RFP">>

\* every channel order with every region, all slots set, one time point
OrderPlans ==
    { Settings(order, Grid(Slots, region), FALSE, 1, FALSE) :
        order \in ChannelOrders, region \in RegionChoices }

\* every region in lightsheet mode
LightsheetPlans ==
    { Settings(StandardOrder, Grid(Slots, region), FALSE, 1, TRUE) :
        region \in RegionChoices }

\* every pattern of holes with every time-lapse setting
SparsePlans ==
    { Settings(StandardOrder, Grid(set, SnapRegion), tpb, ntp, FALSE) :
        set \in SUBSET Slots, tpb \in BOOLEAN, ntp \in 0..MaxTimePoints }

Plans == OrderPlans \cup LightsheetPlans \cup SparsePlans

\* the data-model invariant of a plan
ValidPlan(settings) ==
    /\ NoDuplicates(settings.channel_order_list)
    /\ \A slot \in Slots :
         LET region == settings.region_settings_list[slot[1]][slot[2]]
         IN  \A list \in { region.snap_channel_list, region.video_channel_list,
                           region.z_stack_channel_list } :
               \A i \in 1..Len(list) : InList(list[i], settings.channel_order_list)

----------------------------------------------------------------------------
(* State *)

VARIABLES
    acquisition_settings,      \* the plan the Acquisition was constructed with
    start_acquisition_button,  \* whether the start button is enabled
    acquisitions_started,      \* Acquisition threads started by the start button
    go_to_moves,               \* stage moves issued by the go-to button
    existing,                  \* names of the directories that exist under the output root
    directory,                 \* path local of initial_dir_check, then self.directory
    dir_i,                     \* counter local of initial_dir_check
    dir_pc,                    \* where initial_dir_check is
    pc,                        \* where the worker thread is
    abort_boolean,             \* the abort flag
    abort_dialog,              \* TRUE while the confirmation prompt is shown
    settings_num_time_points,  \* local of run
    num_time_points,           \* loop index of run
    sample_num,
    region_num,
    channel_idx,               \* position of the capture function's channel loop
    framerate,                 \* local of video_acquisition; Unbound until assigned
    cur_frame,
    timeout,
    wait_left,                 \* iterations the busy wait between time points still makes
    core,                      \* camera sequence, circular buffer and shutter
    hw,                        \* camera properties, scan controller, PLC, stage, joystick
    data,                      \* the datastore of the capture in progress
    opened,                    \* paths of the datastores opened so far, in order
    captures,                  \* loop indices at which each of them was opened
    acquisition_label,         \* last status text published
    log_messages,              \* failure lines logged for the channel in progress
    abort_count,               \* executions of abort_acquisition
    abort_set_at,              \* where the worker was when the flag was confirmed
    opened_at_abort,           \* datastores opened so far when the flag was confirmed
    last_move,                 \* slot whose position the last move_stage went to
    crash                      \* the exception that ended the worker, if any

ctl == <<abort_boolean, abort_dialog, abort_set_at, opened_at_abort>>
loopvars == <<settings_num_time_points, num_time_points, sample_num, region_num>>
capvars == <<channel_idx, framerate, cur_frame, timeout>>
devices == <<core, hw>>
store == <<data, opened, captures>>
status == <<acquisition_label, log_messages>>

\* what the constructor fixes for the run
controller == <<start_acquisition_button, acquisitions_started, go_to_moves>>
built == <<acquisition_settings, controller, existing, directory, dir_i, dir_pc>>

vars == <<acquisition_settings, start_acquisition_button, acquisitions_started,
          go_to_moves, existing, directory, dir_i, dir_pc, pc, abort_boolean, abort_dialog, abort_set_at,
          opened_at_abort,
          settings_num_time_points, num_time_points, sample_num, region_num,
          channel_idx, framerate, cur_frame, timeout, wait_left, core, hw,
          data, opened, captures, acquisition_label, log_messages, abort_count,
          last_move, crash>>

\* a local that no assignment has reached yet
Unbound == 0 - 1

NoSlot == <<0 - 1, 0 - 1>>

NoData == [open |-> FALSE, frames |-> 0, closes |-> 0, path |-> <<>>, mode |-> <<>>]

\* the camera as the user left it before the start button was clicked: idle, or
\* in live view with a frame in the buffer, the shutter and auto-shutter either way
CameraAsLeft ==
    { [sequence_running |-> live, remaining_image_count |-> IF live THEN 1 ELSE 0,
       requested |-> 0, produced |-> 0, will |-> 0,
       shutter_open |-> open, auto_shutter |-> auto] :
        live \in BOOLEAN, open \in BOOLEAN, auto \in BOOLEAN }

\* the worker and the devices when the Acquisition has been constructed with one
\* of plans
ConstructedFrom(plans) ==
    /\ acquisition_settings \in plans
    /\ start_acquisition_button = FALSE
    /\ acquisitions_started = 1
    /\ go_to_moves = 0
    /\ pc = "created"
    /\ abort_boolean = FALSE
    /\ abort_dialog = FALSE
    /\ abort_set_at = "never"
    /\ opened_at_abort = 0
    /\ settings_num_time_points = 1
    /\ num_time_points = 0
    /\ sample_num = 0
    /\ region_num = 0
    /\ channel_idx = 1
    /\ framerate = Unbound
    /\ cur_frame = 0
    /\ timeout = 0
    /\ wait_left = 0
    /\ core \in CameraAsLeft
    /\ \E fr \in IF acquisition_settings.lightsheet_mode_boolean
                  THEN {1, DefaultLightsheetFramerate}
                  ELSE {DefaultLightsheetFramerate} :
         hw = [camera_properties |-> "Default", exposure |-> "default_exposure",
               scan_mode |-> "not_scanning", lightsheet_readout_framerate |-> fr,
               plc |-> "none", stage_scanning |-> FALSE, joystick_reset |-> FALSE,
               waited |-> {}, issued |-> FALSE]
    /\ data = NoData
    /\ opened = <<>>
    /\ captures = <<>>
    /\ acquisition_label = ""
    /\ log_messages = 0
    /\ abort_count = 0
    /\ last_move = NoSlot
    /\ crash = "none"

Constructed == ConstructedFrom(Plans)

\* initial_dir_check has run in an output root that holds no directory yet
DirectoryChosen ==
    /\ existing = {}
    /\ directory = <<"Acquisition">>
    /\ dir_i = 1
    /\ dir_pc = "returned"

Init == Constructed /\ DirectoryChosen

----------------------------------------------------------------------------
(* The plan as the worker reads it *)

channel_order_list == acquisition_settings.channel_order_list

region_settings == acquisition_settings.region_settings_list[sample_num][region_num]

----------------------------------------------------------------------------
(* Control thread: the abort handlers *)

\* a stop-request button that raises the flag without waiting for the confirmation
abort_button_sets_flag ==
    /\ abort_dialog' = TRUE
    /\ abort_boolean' = TRUE
    /\ UNCHANGED <<built, pc, abort_set_at, opened_at_abort, loopvars, capvars,
                   wait_left, devices, store, status, abort_count, last_move, crash>>

\* the stop-request button only shows the confirmation prompt
abort_button_clicked ==
    /\ abort_dialog' = TRUE
    /\ UNCHANGED <<built, pc, abort_boolean, abort_set_at, opened_at_abort, loopvars,
                   capvars, wait_left, devices, store, status, abort_count,
                   last_move, crash>>

abort_confirm_button_clicked ==
    /\ abort_dialog
    /\ abort_boolean' = TRUE
    /\ abort_dialog' = FALSE
    /\ abort_set_at' = IF abort_boolean THEN abort_set_at ELSE pc
    /\ opened_at_abort' = IF abort_boolean THEN opened_at_abort ELSE Len(opened)
    /\ UNCHANGED <<built, pc, loopvars, capvars, wait_left, devices,
                   store, status, abort_count, last_move, crash>>

cancel_button_clicked ==
    /\ abort_dialog
    /\ abort_dialog' = FALSE
    /\ UNCHANGED <<built, pc, abort_boolean, abort_set_at, opened_at_abort, loopvars,
                   capvars, wait_left, devices, store, status, abort_count,
                   last_move, crash>>

----------------------------------------------------------------------------
(* Device operations *)

\* core.stop_sequence_acquisition(): the camera produces no further frame
StopSequence(c) ==
    [c EXCEPT !.sequence_running = FALSE, !.requested = 0, !.produced = 0, !.will = 0]

\* core.clear_circular_buffer()
ClearBuffer(c) == [c EXCEPT !.remaining_image_count = 0]

\* core.start_sequence_acquisition(n, 0, _); the camera will deliver w of the n frames
StartSequence(c, n, w) ==
    [c EXCEPT !.sequence_running = n > 0, !.requested = n, !.produced = 0, !.will = w]

\* the numbers of frames a camera asked for n may deliver: all, or it stalls early
Deliveries(n) == (0..Min(MaxStallAfter, n)) \cup {n}

set_default_camera_properties(h, exposure) ==
    [h EXCEPT !.camera_properties = "Default", !.exposure = exposure, !.issued = TRUE]

set_lsrm_camera_properties(h) ==
    [h EXCEPT !.camera_properties = "LSRM", !.exposure = "lsrm", !.issued = TRUE]

set_dslm_camera_properties(h) ==
    [h EXCEPT !.camera_properties = "DSLM", !.exposure = "dslm", !.issued = TRUE]

continuous_scan(h) == [h EXCEPT !.scan_mode = "continuous_scan", !.issued = TRUE]

lightsheet_readout(h) == [h EXCEPT !.scan_mode = "lightsheet_readout", !.issued = TRUE]

reset_tasks(h) == [h EXCEPT !.scan_mode = "reset", !.issued = TRUE]

initialize_plc_for_continuous_lsrm(h) == [h EXCEPT !.plc = "continuous_lsrm", !.issued = TRUE]

initialize_plc_for_scan(h) == [h EXCEPT !.plc = "scan", !.issued = TRUE]

\* the scan begins; no device has been waited for since
scan_start(h) == [h EXCEPT !.stage_scanning = TRUE, !.waited = {}, !.issued = TRUE]

\* core.wait_for_device on the X/Y and Z stages
WaitForStages(h) == [h EXCEPT !.stage_scanning = FALSE, !.waited = @ \cup {"xy", "z"}]

\* core.wait_for_device on the camera
WaitForCamera(h) == [h EXCEPT !.waited = @ \cup {"cam"}]

reset_joystick(h) == [h EXCEPT !.joystick_reset = TRUE, !.issued = TRUE]

\* move_stage returns with both axis groups idle at the target
move_stage(h) == [h EXCEPT !.stage_scanning = FALSE, !.issued = TRUE]

\* min(int(np.round(1 / lightsheet_readout_framerate) * 10 ** 3), 40)
LightsheetFramerate(current) == Min(NpRound(1, current) * 1000, FramerateCeiling)

\* the camera and scan mode a snap or video channel selects (lines 62-72, 99-108);
\* with a framerate of 0 initialize_plc_for_continuous_lsrm divides by zero
ChannelModeFails(channel) ==
    /\ channel # "BF"
    /\ acquisition_settings.lightsheet_mode_boolean
    /\ LightsheetFramerate(hw.lightsheet_readout_framerate) = 0

ChannelMode(channel, exposure) ==
    IF channel = "BF"
    THEN continuous_scan(set_default_camera_properties(hw, exposure))
    ELSE IF acquisition_settings.lightsheet_mode_boolean
         THEN LET fr == LightsheetFramerate(hw.lightsheet_readout_framerate)
              IN  IF fr = 0
                  THEN [hw EXCEPT !.lightsheet_readout_framerate = fr]
                  ELSE set_lsrm_camera_properties(lightsheet_readout(
                         initialize_plc_for_continuous_lsrm(
                           [hw EXCEPT !.lightsheet_readout_framerate = fr])))
         ELSE hw

\* studio.data().create_single_plane_tiff_series_datastore(path)
Path(modality, channel) ==
    <<sample_num + 1, region_num + 1, modality, channel, num_time_points + 1>>

\* the loop indices of the capture in progress; rank 1, 2, 3 is the position of
\* the snap, video and z-stack call in the body of the region loop
CaptureIndex(rank) == <<num_time_points, sample_num, region_num, rank, channel_idx>>

OpenData(modality, channel) ==
    [open |-> TRUE, frames |-> 0, closes |-> 0, path |-> Path(modality, channel),
     mode |-> <<>>]

\* camera properties, exposure and galvo task of the hardware h
ModeOf(h) == <<h.camera_properties, h.exposure, h.scan_mode>>

\* live().snap or start_sequence_acquisition: the frames that go to datastore d
\* are taken with the hardware as h
Acquire(d, h) == [d EXCEPT !.mode = ModeOf(h)]

\* a put_image that stores nothing
PutImageDropped(d) == d

PutImage(d) == [d EXCEPT !.frames = d.frames + 1]

\* a close that leaves the datastore open
CloseLeavesOpen(d) == [d EXCEPT !.closes = d.closes + 1]

\* data.close()
Close(d) == [d EXCEPT !.open = FALSE, !.closes = d.closes + 1]

----------------------------------------------------------------------------
(* Worker thread: Acquisition.run *)

\* a capture function returns: its locals are gone
Return(to) ==
    /\ pc' = to
    /\ channel_idx' = 1
    /\ framerate' = Unbound
    /\ cur_frame' = 0
    /\ timeout' = 0

\* a run entry that takes num_time_points as it is whenever time-lapse is enabled
RunEntryCountAsGiven ==
    /\ pc = "created"
    /\ abort_boolean' = FALSE
    /\ core' = [ClearBuffer(StopSequence(core)) EXCEPT !.shutter_open = FALSE,
                                                        !.auto_shutter = TRUE]
    /\ hw' = [hw EXCEPT !.issued = TRUE]
    /\ settings_num_time_points' =
         IF acquisition_settings.time_points_boolean
         THEN acquisition_settings.num_time_points
         ELSE 1
    /\ num_time_points' = 0
    /\ pc' = "time_point"
    /\ UNCHANGED <<built, abort_dialog, abort_set_at, opened_at_abort, sample_num,
                   region_num, capvars, wait_left, store, status, abort_count,
                   last_move, crash>>

\* an entry that stops the sequence and clears the buffer but leaves the shutter
\* as it finds it
RunEntryKeepsShutter ==
    /\ pc = "created"
    /\ abort_boolean' = FALSE
    /\ core' = ClearBuffer(StopSequence(core))
    /\ hw' = [hw EXCEPT !.issued = TRUE]
    /\ settings_num_time_points' =
         IF acquisition_settings.time_points_boolean
            /\ acquisition_settings.num_time_points # 0
         THEN acquisition_settings.num_time_points
         ELSE 1
    /\ num_time_points' = 0
    /\ pc' = "time_point"
    /\ UNCHANGED <<built, abort_dialog, abort_set_at, opened_at_abort, sample_num,
                   region_num, capvars, wait_left, store, status, abort_count,
                   last_move, crash>>

\* lines 283-291: reset the flag, force the hardware baseline, count the time points
RunEntry ==
    /\ pc = "created"
    /\ abort_boolean' = FALSE
    /\ core' = [ClearBuffer(StopSequence(core)) EXCEPT !.shutter_open = FALSE,
                                                        !.auto_shutter = TRUE]
    /\ hw' = [hw EXCEPT !.issued = TRUE]
    /\ settings_num_time_points' =
         IF acquisition_settings.time_points_boolean
            /\ acquisition_settings.num_time_points # 0
         THEN acquisition_settings.num_time_points
         ELSE 1
    /\ num_time_points' = 0
    /\ pc' = "time_point"
    /\ UNCHANGED <<built, abort_dialog, abort_set_at, opened_at_abort, sample_num,
                   region_num, capvars, wait_left, store, status, abort_count,
                   last_move, crash>>

\* lines 293-301: head of the time-point loop and its abort check
TimePointHead ==
    /\ pc = "time_point"
    /\ IF num_time_points < settings_num_time_points
       THEN /\ acquisition_label' = "Initializing Acquisition"
            /\ IF abort_boolean
               THEN /\ pc' = "abort_acquisition"
                    /\ UNCHANGED <<sample_num, region_num>>
               ELSE /\ pc' = "region"
                    /\ sample_num' = 0
                    /\ region_num' = 0
       ELSE /\ pc' = "completed"
            /\ UNCHANGED <<acquisition_label, sample_num, region_num>>
    /\ UNCHANGED <<built, ctl, settings_num_time_points,
                   num_time_points, capvars, wait_left, devices, store,
                   log_messages, abort_count, last_move, crash>>

\* the slot the nested sample and region loops visit after (sample_num, region_num)
NextSample == IF region_num + 1 < RegionDim THEN sample_num ELSE sample_num + 1

NextRegion == IF region_num + 1 < RegionDim THEN region_num + 1 ELSE 0

\* lines 303-315: one slot of the grid; an unset slot is passed over
RegionStep ==
    /\ pc = "region"
    /\ IF sample_num >= SampleDim
       THEN /\ pc' = "time_point_end"
            /\ UNCHANGED <<sample_num, region_num, hw, last_move, acquisition_label>>
       ELSE IF region_settings.committed
       THEN /\ acquisition_label' = "Moving to start position..."
            /\ hw' = move_stage(hw)
            /\ last_move' = <<sample_num, region_num>>
            /\ pc' = "snap_call"
            /\ UNCHANGED <<sample_num, region_num>>
       ELSE /\ sample_num' = NextSample
            /\ region_num' = NextRegion
            /\ pc' = "region"
            /\ UNCHANGED <<hw, last_move, acquisition_label>>
    /\ UNCHANGED <<built, ctl, settings_num_time_points,
                   num_time_points, capvars, wait_left, core, store, log_messages,
                   abort_count, crash>>

\* line 317
SnapCall ==
    /\ pc = "snap_call"
    /\ IF region_settings.snap_boolean
       THEN pc' = "snap_channel" /\ channel_idx' = 1
       ELSE pc' = "video_call" /\ UNCHANGED channel_idx
    /\ UNCHANGED <<built, ctl, loopvars, framerate, cur_frame, timeout,
                   wait_left, devices, store, status, abort_count, last_move, crash>>

\* a return from a modality call that goes on to the next one without reading the
\* flag
AfterModalityUnchecked(here, next) ==
    /\ pc = here
    /\ IF next = "region"
       THEN /\ pc' = "region"
            /\ sample_num' = NextSample
            /\ region_num' = NextRegion
       ELSE pc' = next /\ UNCHANGED <<sample_num, region_num>>
    /\ UNCHANGED <<built, ctl, settings_num_time_points,
                   num_time_points, capvars, wait_left, devices, store, status,
                   abort_count, last_move, crash>>

\* lines 319-321, 325-327, 331-333: the abort check after a modality call
AfterModality(here, next) ==
    /\ pc = here
    /\ IF abort_boolean
       THEN pc' = "abort_acquisition" /\ UNCHANGED <<sample_num, region_num>>
       ELSE IF next = "region"
            THEN /\ pc' = "region"
                 /\ sample_num' = NextSample
                 /\ region_num' = NextRegion
            ELSE pc' = next /\ UNCHANGED <<sample_num, region_num>>
    /\ UNCHANGED <<built, ctl, settings_num_time_points,
                   num_time_points, capvars, wait_left, devices, store, status,
                   abort_count, last_move, crash>>

SnapReturn == AfterModality("snap_return", "video_call")

VideoReturn == AfterModality("video_return", "z_stack_call")

ZStackReturn == AfterModality("z_stack_return", "region")

\* line 323
VideoCall ==
    /\ pc = "video_call"
    /\ IF region_settings.video_boolean
       THEN pc' = "video_channel" /\ channel_idx' = 1 /\ framerate' = Unbound
       ELSE pc' = "z_stack_call" /\ UNCHANGED <<channel_idx, framerate>>
    /\ UNCHANGED <<built, ctl, loopvars, cur_frame, timeout,
                   wait_left, devices, store, status, abort_count, last_move, crash>>

\* an end of time point that goes back and waits after the last time point too
TimePointEndAlwaysBack ==
    /\ pc = "time_point_end"
    /\ IF abort_boolean
       THEN /\ pc' = "abort_acquisition"
            /\ UNCHANGED <<num_time_points, wait_left, hw, last_move, crash,
                           acquisition_label>>
       ELSE IF /\ acquisition_settings.time_points_boolean
               /\ acquisition_settings.num_time_points - num_time_points > 0
       THEN IF acquisition_settings.region_settings_list[0][0].committed
            THEN /\ acquisition_label' = "Moving back to start position..."
                 /\ hw' = move_stage(hw)
                 /\ last_move' = <<0, 0>>
                 /\ wait_left' \in 0..MaxWaitTicks
                 /\ pc' = "waiting"
                 /\ UNCHANGED <<num_time_points, crash>>
            ELSE \* region_settings_list[0][0] is the integer 0: AttributeError
                 /\ acquisition_label' = "Moving back to start position..."
                 /\ pc' = "crashed"
                 /\ crash' = "unset_region"
                 /\ UNCHANGED <<num_time_points, wait_left, hw, last_move>>
       ELSE /\ num_time_points' = num_time_points + 1
            /\ pc' = "time_point"
            /\ UNCHANGED <<wait_left, hw, last_move, crash, acquisition_label>>
    /\ UNCHANGED <<built, ctl, settings_num_time_points, sample_num,
                   region_num, capvars, core, store, log_messages, abort_count>>

\* lines 335-346: abort check after the regions, then the move back to region (0,0)
TimePointEnd ==
    /\ pc = "time_point_end"
    /\ IF abort_boolean
       THEN /\ pc' = "abort_acquisition"
            /\ UNCHANGED <<num_time_points, wait_left, hw, last_move, crash,
                           acquisition_label>>
       ELSE IF /\ acquisition_settings.time_points_boolean
               /\ acquisition_settings.num_time_points - num_time_points > 1
       THEN IF acquisition_settings.region_settings_list[0][0].committed
            THEN /\ acquisition_label' = "Moving back to start position..."
                 /\ hw' = move_stage(hw)
                 /\ last_move' = <<0, 0>>
                 /\ wait_left' \in 0..MaxWaitTicks
                 /\ pc' = "waiting"
                 /\ UNCHANGED <<num_time_points, crash>>
            ELSE \* region_settings_list[0][0] is the integer 0: AttributeError
                 /\ acquisition_label' = "Moving back to start position..."
                 /\ pc' = "crashed"
                 /\ crash' = "unset_region"
                 /\ UNCHANGED <<num_time_points, wait_left, hw, last_move>>
       ELSE /\ num_time_points' = num_time_points + 1
            /\ pc' = "time_point"
            /\ UNCHANGED <<wait_left, hw, last_move, crash, acquisition_label>>
    /\ UNCHANGED <<built, ctl, settings_num_time_points, sample_num,
                   region_num, capvars, core, store, log_messages, abort_count>>

\* a busy wait that does not read the flag
WaitingUnchecked ==
    /\ pc = "waiting"
    /\ IF wait_left > 0
       THEN /\ wait_left' = wait_left - 1
            /\ acquisition_label' = "next time point"
            /\ UNCHANGED <<pc, num_time_points>>
       ELSE /\ num_time_points' = num_time_points + 1
            /\ pc' = "time_point"
            /\ UNCHANGED <<wait_left, acquisition_label>>
    /\ UNCHANGED <<built, ctl, settings_num_time_points, sample_num,
                   region_num, capvars, devices, store, log_messages, abort_count,
                   last_move, crash>>

\* lines 352-369: one iteration of the busy wait, or its exit
Waiting ==
    /\ pc = "waiting"
    /\ IF wait_left > 0
       THEN /\ wait_left' = wait_left - 1
            /\ acquisition_label' = "next time point"
            /\ pc' = IF abort_boolean THEN "abort_acquisition" ELSE "waiting"
            /\ UNCHANGED num_time_points
       ELSE /\ num_time_points' = num_time_points + 1
            /\ pc' = "time_point"
            /\ UNCHANGED <<wait_left, acquisition_label>>
    /\ UNCHANGED <<built, ctl, settings_num_time_points, sample_num,
                   region_num, capvars, devices, store, log_messages, abort_count,
                   last_move, crash>>

\* the hardware part of abort_acquisition, lines 274-279
SafeShutdown(h) ==
    reset_joystick(WaitForStages(set_default_camera_properties(h, "default_exposure")))

\* a capture function that performs the final reset itself before it returns
ReturnAfterReset(to) ==
    /\ data' = Close(data)
    /\ Return(to)
    /\ core' = ClearBuffer(StopSequence(core))
    /\ hw' = SafeShutdown(hw)

\* lines 90-92, 126-128, 158-160, 216-218, 255-257: a capture function that reads
\* the flag set closes its datastore and returns
ReturnOnAbort(to) ==
    /\ data' = Close(data)
    /\ Return(to)
    /\ UNCHANGED devices

\* lines 273-275: abort_acquisition is entered, the sequence stopped, the buffer
\* cleared
abort_acquisition ==
    /\ pc = "abort_acquisition"
    /\ acquisition_label' = "Aborting..."
    /\ core' = ClearBuffer(StopSequence(core))
    /\ abort_count' = abort_count + 1
    /\ pc' = "abort_default"
    /\ UNCHANGED <<built, ctl, loopvars, capvars, wait_left, hw, store,
                   log_messages, last_move, crash>>

\* one statement of abort_acquisition that commands the hardware
AbortStep(here, next, h) ==
    /\ pc = here
    /\ hw' = h
    /\ pc' = next
    /\ UNCHANGED <<built, ctl, loopvars, capvars, wait_left, core, store, status,
                   abort_count, last_move, crash>>

\* line 276
AbortRestoreDefault ==
    AbortStep("abort_default", "abort_wait",
              set_default_camera_properties(hw, "default_exposure"))

\* lines 277-278
AbortWaitForStages == AbortStep("abort_wait", "abort_joystick", WaitForStages(hw))

\* line 279
AbortResetJoystick == AbortStep("abort_joystick", "abort_publish", reset_joystick(hw))

\* line 280
AbortPublish ==
    /\ pc = "abort_publish"
    /\ acquisition_label' = "Aborted"
    /\ pc' = "aborted"
    /\ UNCHANGED <<built, ctl, loopvars, capvars, wait_left, devices, store,
                   log_messages, abort_count, last_move, crash>>

\* lines 371-375
Completed ==
    /\ pc = "completed"
    /\ hw' = reset_joystick(continuous_scan(
                set_default_camera_properties(hw, "default_exposure")))
    /\ acquisition_label' = "Your acquisition was successful!"
    /\ pc' = "successful"
    /\ UNCHANGED <<built, ctl, loopvars, capvars, wait_left, core,
                   store, log_messages, abort_count, last_move, crash>>

----------------------------------------------------------------------------
(* snap_acquisition *)

\* lines 60-88 for one channel of channel_order_list, or line 94 after the last
SnapChannel ==
    /\ pc = "snap_channel"
    /\ IF channel_idx > Len(channel_order_list)
       THEN /\ hw' = reset_tasks(hw)
            /\ Return("snap_return")
            /\ UNCHANGED <<core, store, acquisition_label, crash>>
       ELSE LET channel == channel_order_list[channel_idx]
            IN  IF ~InList(channel, region_settings.snap_channel_list)
                THEN /\ channel_idx' = channel_idx + 1
                     /\ UNCHANGED <<pc, framerate, cur_frame, timeout, devices, store,
                                    acquisition_label, crash>>
                ELSE IF ChannelModeFails(channel)
                THEN /\ hw' = ChannelMode(channel, "snap_exposure_time")
                     /\ pc' = "crashed"
                     /\ crash' = "division_by_zero"
                     /\ UNCHANGED <<capvars, core, store, acquisition_label>>
                ELSE /\ hw' = reset_tasks(ChannelMode(channel, "snap_exposure_time"))
                     /\ data' = Close(PutImage(Acquire(OpenData("snap", channel),
                                   ChannelMode(channel, "snap_exposure_time"))))
                     /\ opened' = Append(opened, Path("snap", channel))
                     /\ captures' = Append(captures, CaptureIndex(1))
                     /\ core' = ClearBuffer(core)
                     /\ acquisition_label' = "Saving snap"
                     /\ pc' = "snap_check"
                     /\ UNCHANGED <<capvars, crash>>
    /\ UNCHANGED <<built, ctl, loopvars, wait_left, log_messages,
                   abort_count, last_move>>

----------------------------------------------------------------------------
(* Drain loops of video_acquisition and z_stack_acquisition *)

\* the camera will put no further frame of the sequence into the buffer
CameraStalled == ~(core.sequence_running /\ core.produced < core.will)

\* a drain body that declares the timeout once the counter has reached the
\* threshold
DrainBodyAtThreshold ==
    LET timed_out == timeout >= TimeoutThreshold
        c == IF timed_out THEN ClearBuffer(StopSequence(core)) ELSE core
    IN  /\ log_messages' = IF timed_out THEN Min(log_messages + 1, 2) ELSE log_messages
        /\ acquisition_label' = IF timed_out THEN "failed" ELSE acquisition_label
        /\ IF c.remaining_image_count > 0
           THEN /\ core' = [c EXCEPT !.remaining_image_count = @ - 1]
                /\ data' = PutImage(data)
                /\ cur_frame' = cur_frame + 1
                /\ timeout' = 0
           ELSE /\ CameraStalled \/ timeout < MaxSlowPolls
                /\ core' = c
                /\ timeout' = Min(timeout + 1, TimeoutCap)
                /\ UNCHANGED <<data, cur_frame>>

\* lines 126-152 and 216-245: the body of a drain loop when the flag is not set
DrainBody ==
    LET timed_out == timeout > TimeoutThreshold
        c == IF timed_out THEN ClearBuffer(StopSequence(core)) ELSE core
    IN  /\ log_messages' = IF timed_out THEN Min(log_messages + 1, 2) ELSE log_messages
        /\ acquisition_label' = IF timed_out THEN "failed" ELSE acquisition_label
        /\ IF c.remaining_image_count > 0
           THEN /\ core' = [c EXCEPT !.remaining_image_count = @ - 1]
                /\ data' = PutImage(data)
                /\ cur_frame' = cur_frame + 1
                /\ timeout' = 0
           ELSE /\ CameraStalled \/ timeout < MaxSlowPolls
                /\ core' = c
                /\ timeout' = Min(timeout + 1, TimeoutCap)
                /\ UNCHANGED <<data, cur_frame>>

DrainCondition == core.remaining_image_count > 0 \/ core.sequence_running

----------------------------------------------------------------------------
(* video_acquisition *)

\* lines 97-123 for one channel of channel_order_list, or line 162 after the last
VideoChannel ==
    /\ pc = "video_channel"
    /\ IF channel_idx > Len(channel_order_list)
       THEN /\ hw' = reset_tasks(hw)
            /\ Return("video_return")
            /\ UNCHANGED <<core, store, status, crash>>
       ELSE LET channel == channel_order_list[channel_idx]
                fr == IF channel # "BF" /\ acquisition_settings.lightsheet_mode_boolean
                      THEN LightsheetFramerate(hw.lightsheet_readout_framerate)
                      ELSE framerate
                num_images == fr * region_settings.video_duration_in_seconds
            IN  IF ~InList(channel, region_settings.video_channel_list)
                THEN /\ channel_idx' = channel_idx + 1
                     /\ UNCHANGED <<pc, framerate, cur_frame, timeout, devices, store,
                                    status, crash>>
                ELSE IF ChannelModeFails(channel)
                THEN /\ hw' = ChannelMode(channel, "video_exposure_time")
                     /\ framerate' = fr
                     /\ pc' = "crashed"
                     /\ crash' = "division_by_zero"
                     /\ UNCHANGED <<channel_idx, cur_frame, timeout, core, store, status>>
                ELSE IF fr = Unbound
                THEN \* line 115 reads framerate before any assignment
                     /\ hw' = ChannelMode(channel, "video_exposure_time")
                     /\ data' = OpenData("video", channel)
                     /\ opened' = Append(opened, Path("video", channel))
                     /\ captures' = Append(captures, CaptureIndex(2))
                     /\ acquisition_label' = "Initializing video"
                     /\ pc' = "crashed"
                     /\ crash' = "unbound_framerate"
                     /\ UNCHANGED <<capvars, core, log_messages>>
                ELSE /\ hw' = ChannelMode(channel, "video_exposure_time")
                     /\ framerate' = fr
                     /\ data' = Acquire(OpenData("video", channel),
                                        ChannelMode(channel, "video_exposure_time"))
                     /\ opened' = Append(opened, Path("video", channel))
                     /\ captures' = Append(captures, CaptureIndex(2))
                     /\ \E w \in Deliveries(num_images) :
                          core' = StartSequence(core, num_images, w)
                     /\ cur_frame' = 0
                     /\ timeout' = 0
                     /\ log_messages' = 0
                     /\ acquisition_label' = "Acquiring video"
                     /\ pc' = "video_drain"
                     /\ UNCHANGED <<channel_idx, crash>>
    /\ UNCHANGED <<built, ctl, loopvars, wait_left, abort_count, last_move>>

\* lines 126-152 of one iteration of the drain loop of a video channel
VideoBody ==
    IF abort_boolean
    THEN ReturnOnAbort("video_return") /\ UNCHANGED status
    ELSE DrainBody /\ pc' = "video_drain" /\ UNCHANGED <<channel_idx, framerate, hw>>

\* line 125, first operand: get_remaining_image_count() > 0 enters the body; when
\* it is 0 the second operand is read next
VideoDrain ==
    /\ pc = "video_drain"
    /\ IF core.remaining_image_count > 0
       THEN VideoBody
       ELSE /\ pc' = "video_running"
            /\ UNCHANGED <<capvars, devices, data, status>>
    /\ UNCHANGED <<built, ctl, loopvars, wait_left, opened,
                   captures,
                   abort_count, last_move, crash>>

\* line 125, second operand: is_sequence_running() enters the body; otherwise the
\* loop is left and lines 154-156 run
VideoRunning ==
    /\ pc = "video_running"
    /\ IF core.sequence_running
       THEN VideoBody
       ELSE /\ core' = ClearBuffer(StopSequence(core))
            /\ data' = Close(data)
            /\ pc' = "video_check"
            /\ UNCHANGED <<capvars, status, hw>>
    /\ UNCHANGED <<built, ctl, loopvars, wait_left, opened,
                   captures,
                   abort_count, last_move, crash>>

\* a channel loop that goes round again without moving to the next channel
CheckWithoutAdvance(here, loop, return) ==
    /\ pc = here
    /\ IF abort_boolean
       THEN ReturnOnAbort(return)
       ELSE /\ pc' = loop
            /\ UNCHANGED <<channel_idx, data, framerate, cur_frame, timeout, devices>>
    /\ UNCHANGED <<built, ctl, loopvars, wait_left, opened,
                   captures, status, abort_count, last_move, crash>>

\* a check after a channel that goes on to the next channel whatever the flag
CheckIgnoresFlag(here, loop, return) ==
    /\ pc = here
    /\ channel_idx' = channel_idx + 1
    /\ pc' = loop
    /\ UNCHANGED <<data, framerate, cur_frame, timeout, devices>>
    /\ UNCHANGED <<built, ctl, loopvars, wait_left, opened,
                   captures,
                   status, abort_count, last_move, crash>>

\* lines 90-92, 158-160 and 255-257 share this shape
CheckAfterChannel(here, loop, return) ==
    /\ pc = here
    /\ IF abort_boolean
       THEN ReturnOnAbort(return)
       ELSE /\ channel_idx' = channel_idx + 1
            /\ pc' = loop
            /\ UNCHANGED <<data, framerate, cur_frame, timeout, devices>>
    /\ UNCHANGED <<built, ctl, loopvars, wait_left, opened,
                   captures,
                   status, abort_count, last_move, crash>>

SnapCheck == CheckAfterChannel("snap_check", "snap_channel", "snap_return")

VideoCheck == CheckAfterChannel("video_check", "video_channel", "video_return")

----------------------------------------------------------------------------
(* z_stack_acquisition *)

\* a frame count taken from the signed distance
num_frames_signed ==
    NpRound(region_settings.z_end_position - region_settings.z_start_position,
            region_settings.step_size)

\* line 168
num_frames ==
    NpRound(Abs(region_settings.z_end_position - region_settings.z_start_position),
            region_settings.step_size)

\* lines 170-182: the mode of the whole z-stack
ZStackMode(h) ==
    initialize_plc_for_scan(
        IF acquisition_settings.lightsheet_mode_boolean
        THEN set_lsrm_camera_properties(lightsheet_readout(
               [h EXCEPT !.lightsheet_readout_framerate =
                   IF acquisition_settings.z_scan_speed \in {15, 30}
                   THEN acquisition_settings.z_scan_speed ELSE @]))
        ELSE set_dslm_camera_properties(continuous_scan(h)))

\* line 329 and lines 164-182
ZStackCall ==
    /\ pc = "z_stack_call"
    /\ IF region_settings.z_stack_boolean
       THEN /\ hw' = ZStackMode(hw)
            /\ channel_idx' = 1
            /\ pc' = "z_stack_channel"
            /\ UNCHANGED <<sample_num, region_num>>
       ELSE /\ pc' = "region"
            /\ sample_num' = NextSample
            /\ region_num' = NextRegion
            /\ UNCHANGED <<hw, channel_idx>>
    /\ UNCHANGED <<built, ctl, settings_num_time_points,
                   num_time_points, framerate, cur_frame, timeout, wait_left, core,
                   store, status, abort_count, last_move, crash>>

\* lines 184-212 for one channel of channel_order_list, or line 259 after the last
ZStackChannel ==
    /\ pc = "z_stack_channel"
    /\ IF channel_idx > Len(channel_order_list)
       THEN /\ hw' = reset_tasks(hw)
            /\ Return("z_stack_return")
            /\ UNCHANGED <<core, store, status, last_move>>
       ELSE LET channel == channel_order_list[channel_idx]
            IN  IF ~InList(channel, region_settings.z_stack_channel_list)
                THEN /\ channel_idx' = channel_idx + 1
                     /\ UNCHANGED <<pc, framerate, cur_frame, timeout, devices, store,
                                    status, last_move>>
                ELSE /\ data' = Acquire(OpenData("zStack", channel), hw)
                     /\ opened' = Append(opened, Path("zStack", channel))
                     /\ captures' = Append(captures, CaptureIndex(3))
                     /\ hw' = scan_start(move_stage(hw))
                     /\ last_move' = <<sample_num, region_num>>
                     /\ \E w \in Deliveries(num_frames) :
                          core' = StartSequence(core, num_frames, w)
                     /\ cur_frame' = 0
                     /\ timeout' = 0
                     /\ log_messages' = 0
                     /\ acquisition_label' = "Acquiring z stack"
                     /\ pc' = "z_stack_outer"
                     /\ UNCHANGED <<channel_idx, framerate>>
    /\ UNCHANGED <<built, ctl, loopvars, wait_left, abort_count, crash>>

\* an outer loop that is left without waiting for any device
ZStackOuterNoWait ==
    /\ pc = "z_stack_outer"
    /\ IF DrainCondition
       THEN /\ pc' = "z_stack_inner"
            /\ UNCHANGED <<devices, data>>
       ELSE /\ data' = Close(data)
            /\ core' = ClearBuffer(core)
            /\ pc' = "z_stack_check"
            /\ UNCHANGED hw
    /\ UNCHANGED <<built, ctl, loopvars, capvars, wait_left, opened,
                   captures,
                   status, abort_count, last_move, crash>>

\* line 214, and lines 249-253 once the outer loop is left
ZStackOuter ==
    /\ pc = "z_stack_outer"
    /\ IF DrainCondition
       THEN /\ pc' = "z_stack_inner"
            /\ UNCHANGED <<devices, data>>
       ELSE /\ data' = Close(data)
            /\ core' = ClearBuffer(core)
            /\ hw' = WaitForCamera(WaitForStages(hw))
            /\ pc' = "z_stack_check"
    /\ UNCHANGED <<built, ctl, loopvars, capvars, wait_left, opened,
                   captures,
                   status, abort_count, last_move, crash>>

\* lines 215-247: one iteration of the inner loop, or line 247 once it is left
ZStackInner ==
    /\ pc = "z_stack_inner"
    /\ IF cur_frame < num_frames
       THEN IF abort_boolean
            THEN ReturnOnAbort("z_stack_return") /\ UNCHANGED status
            ELSE DrainBody /\ UNCHANGED <<pc, channel_idx, framerate, hw>>
       ELSE /\ core' = StopSequence(core)
            /\ pc' = "z_stack_outer"
            /\ UNCHANGED <<capvars, data, status, hw>>
    /\ UNCHANGED <<built, ctl, loopvars, wait_left, opened,
                   captures,
                   abort_count, last_move, crash>>

ZStackCheck == CheckAfterChannel("z_stack_check", "z_stack_channel", "z_stack_return")

----------------------------------------------------------------------------
(* Environment: the camera and failing device calls *)

\* the running sequence puts its next frame into the circular buffer
CameraFrame ==
    /\ core.sequence_running
    /\ core.produced < core.will
    /\ core.remaining_image_count < MaxBacklog
    /\ core' = [core EXCEPT !.remaining_image_count = @ + 1,
                            !.produced = @ + 1,
                            !.sequence_running = core.produced + 1 < core.requested]
    /\ UNCHANGED <<built, pc, ctl, loopvars, capvars, wait_left, hw,
                   store, status, abort_count, last_move, crash>>

\* a step of a channel loop that makes a device call: a capture or reset_tasks
ChannelStepCalls(list) ==
    IF channel_idx > Len(channel_order_list)
    THEN TRUE
    ELSE InList(channel_order_list[channel_idx], list)

\* the worker is about to make a blocking device call
DeviceCallPending ==
    CASE pc \in {"created", "abort_acquisition", "abort_default", "abort_wait",
                 "abort_joystick", "completed"} -> TRUE
      [] pc = "region" ->
            IF sample_num < SampleDim THEN region_settings.committed ELSE FALSE
      [] pc = "snap_channel" -> ChannelStepCalls(region_settings.snap_channel_list)
      [] pc = "video_channel" -> ChannelStepCalls(region_settings.video_channel_list)
      [] pc = "z_stack_channel" -> ChannelStepCalls(region_settings.z_stack_channel_list)
      [] pc = "z_stack_call" -> region_settings.z_stack_boolean
      [] pc = "time_point_end" ->
            /\ ~abort_boolean
            /\ acquisition_settings.time_points_boolean
            /\ acquisition_settings.num_time_points - num_time_points > 1
            /\ acquisition_settings.region_settings_list[0][0].committed
      [] OTHER -> FALSE

\* a blocking device call raises; run has no handler, the thread ends
HardwareCommandFailure ==
    /\ DeviceCallPending
    /\ pc' = "crashed"
    /\ crash' = "device_error"
    /\ UNCHANGED <<built, ctl, loopvars, capvars, wait_left, devices,
                   store, status, abort_count, last_move>>

----------------------------------------------------------------------------
(* initial_dir_check, run by the constructor *)

\* largest suffix N of an existing directory AcquisitionN explored
MaxDirSuffix == 11

DigitChars == <<"0", "1", "2", "3", "4", "5", "6", "7", "8", "9">>

\* Python's str(n) for n >= 0, as a sequence of characters
RECURSIVE Str(_)
Str(n) ==
    IF n < 10 THEN <<DigitChars[n + 1]>>
    ELSE Str(n \div 10) \o <<DigitChars[(n % 10) + 1]>>

\* a removesuffix that leaves the old counter in place
RemoveSuffixKeeps(path, suffix) == path

\* Python's str.removesuffix
RemoveSuffix(path, suffix) ==
    IF /\ Len(suffix) > 0
       /\ Len(path) >= Len(suffix)
       /\ SubSeq(path, Len(path) - Len(suffix) + 1, Len(path)) = suffix
    THEN SubSeq(path, 1, Len(path) - Len(suffix))
    ELSE path

\* directory + "/Acquisition"; the text before any counter is one token
AcquisitionPath == <<"Acquisition">>

\* the name with counter k; k = 0 is the name without a counter
DirName(k) == IF k = 0 THEN AcquisitionPath ELSE AcquisitionPath \o Str(k)

\* os.path.isdir
IsDir(path) == path \in existing

\* everything of the worker and the devices
runvars == <<pc, ctl, loopvars, capvars, wait_left, devices, store, status,
             abort_count, last_move, crash>>

\* the constructor is about to call initial_dir_check, any directories may exist
DirInit ==
    /\ Constructed
    /\ acquisition_settings = Settings(StandardOrder, Grid(Slots, SnapRegion), FALSE, 1, FALSE)
    /\ \E set \in SUBSET (0..MaxDirSuffix) : existing = {DirName(k) : k \in set}
    /\ directory = AcquisitionPath
    /\ dir_i = 1
    /\ dir_pc = "if"

\* lines 49-52
DirCheckIf ==
    /\ dir_pc = "if"
    /\ directory' = IF IsDir(directory) THEN directory \o Str(dir_i) ELSE directory
    /\ dir_pc' = "while"
    /\ UNCHANGED <<acquisition_settings, controller, existing, dir_i, runvars>>

\* lines 53-57: one iteration of the loop, or the return
DirCheckWhile ==
    /\ dir_pc = "while"
    /\ IF IsDir(directory)
       THEN /\ directory' = RemoveSuffix(directory, Str(dir_i)) \o Str(dir_i + 1)
            /\ dir_i' = dir_i + 1
            /\ UNCHANGED dir_pc
       ELSE /\ dir_pc' = "returned"
            /\ UNCHANGED <<directory, dir_i>>
    /\ UNCHANGED <<acquisition_settings, controller, existing, runvars>>

DirNext ==
    \/ DirCheckIf
    \/ DirCheckWhile

DirSpec == DirInit /\ [][DirNext]_vars

----------------------------------------------------------------------------
(* Runs of a plan with one z-stack, for every z range and step size *)

\* largest z position explored
MaxZPosition == 5
\* largest step_size explored
MaxStepSize == 3

\* (z_start_position, z_end_position, step_size), with the example of the spec
ZInputs ==
    ((0..MaxZPosition) \X (0..MaxZPosition) \X (1..MaxStepSize)) \cup {<<0, 100, 10>>}

ZRegion(in) ==
    [RegionSettings(<<>>, <<>>, <<"GFP">>) EXCEPT !.z_start_position = in[1],
                                                    !.z_end_position = in[2],
                                                    !.step_size = in[3]]

ZPlans ==
    { Settings(StandardOrder, Grid({<<0, 0>>}, ZRegion(in)), FALSE, 1, lsrm) :
        in \in ZInputs, lsrm \in BOOLEAN }

ZInit == ConstructedFrom(ZPlans) /\ DirectoryChosen

\* the steps of a run that is not aborted and whose device calls succeed
ZNext ==
    \/ RunEntry
    \/ TimePointHead
    \/ RegionStep
    \/ SnapCall
    \/ VideoCall
    \/ ZStackCall
    \/ ZStackChannel
    \/ ZStackOuter
    \/ ZStackInner
    \/ ZStackCheck
    \/ ZStackReturn
    \/ TimePointEnd
    \/ Completed
    \/ CameraFrame

ZSpec == ZInit /\ [][ZNext]_vars

----------------------------------------------------------------------------
(* The controller's buttons while an Acquisition thread runs *)

\* go-to clicks explored
MaxGoToMoves == 1
\* Acquisition threads explored
MaxAcquisitions == 2

\* the plan the controller holds when the start button is clicked
RunPlan == Settings(<<"BF", "GFP">>, Grid(Slots, SnapRegion), FALSE, 1, FALSE)

ControllerInit == ConstructedFrom({RunPlan}) /\ DirectoryChosen

\* the worker holds no region of the list in a local: it is before line 305 or
\* after the capture calls of a region
BetweenRegions == pc \in {"created", "time_point", "region", "time_point_end"}

\* CLSController.go_to_button_clicked; the button is enabled when a region is set
go_to_button_clicked ==
    /\ go_to_moves < MaxGoToMoves
    /\ \E slot \in Slots : acquisition_settings.region_settings_list[slot[1]][slot[2]].committed
    /\ hw' = move_stage(hw)
    /\ go_to_moves' = go_to_moves + 1
    /\ UNCHANGED <<acquisition_settings, start_acquisition_button, acquisitions_started,
                   existing, directory, dir_i, dir_pc, pc, ctl, loopvars, capvars,
                   wait_left, core, store, status, abort_count, last_move, crash>>

\* CLSController.browse_button_clicked; the path is empty when the dialog is
\* cancelled
browse_button_clicked ==
    /\ \E path \in {"", "G:"} :
         start_acquisition_button' = IF path # "" THEN TRUE ELSE start_acquisition_button
    /\ UNCHANGED <<acquisition_settings, acquisitions_started, go_to_moves, existing,
                   directory, dir_i, dir_pc, runvars>>

\* CLSController.start_acquisition_button_clicked once an Acquisition runs: one
\* more thread on the same devices, of which only the number is kept
start_acquisition_button_clicked ==
    /\ start_acquisition_button
    /\ acquisitions_started < MaxAcquisitions
    /\ acquisitions_started' = acquisitions_started + 1
    /\ start_acquisition_button' = FALSE
    /\ UNCHANGED <<acquisition_settings, go_to_moves, existing, directory, dir_i,
                   dir_pc, runvars>>

\* self.sample_dimension and self.region_dimension, as the list shows them
sample_dimension(list) == Cardinality(DOMAIN list)

region_dimension(row) == Cardinality(DOMAIN row)

RECURSIVE RemoveLoop(_, _, _, _)
\* lines 61-66 of CLSAcquisitionParameters.py from region_index on
RemoveLoop(row, region_num_, region_index, found_boolean) ==
    IF region_index >= region_dimension(row) - 1
    THEN [row |-> row, found_boolean |-> found_boolean]
    ELSE IF row[region_index].committed
    THEN RemoveLoop(IF region_index > region_num_
                    THEN [row EXCEPT ![region_index - 1] = row[region_index],
                                     ![region_index] = Unset]
                    ELSE row,
                    region_num_, region_index + 1, TRUE)
    ELSE RemoveLoop(row, region_num_, region_index + 1, found_boolean)

\* AcquisitionSettings.remove_region_settings; in the last sample line 67 raises
\* IndexError, which leaves the list as the loop made it
remove_region_settings(list, sample_num_, region_num_) ==
    LET done == RemoveLoop([list[sample_num_] EXCEPT ![region_num_] = Unset],
                           region_num_, 0, FALSE)
        rows == [list EXCEPT ![sample_num_] = done.row]
    IN  IF /\ sample_num_ + 1 < sample_dimension(list)
           /\ rows[sample_num_ + 1][0].committed
           /\ ~done.found_boolean
        THEN [s \in 0..(sample_dimension(list) - 1) |->
                IF s < sample_num_ THEN rows[s]
                ELSE IF s + 1 < sample_dimension(list) THEN rows[s + 1]
                ELSE [r \in 0..(region_dimension(list[0]) - 1) |-> Unset]]
        ELSE rows

\* CLSController.remove_region_button_clicked for the region the dialog shows,
\* clicked while the worker is between two regions
remove_region_button_clicked ==
    /\ BetweenRegions
    /\ \E slot \in Slots :
         /\ acquisition_settings.region_settings_list[slot[1]][slot[2]].committed
         /\ acquisition_settings' =
              [acquisition_settings EXCEPT !.region_settings_list =
                 remove_region_settings(@, slot[1], slot[2])]
    /\ UNCHANGED <<controller, existing, directory, dir_i, dir_pc, runvars>>

ControllerNext ==
    \/ RunEntry
    \/ TimePointHead
    \/ RegionStep
    \/ SnapCall
    \/ SnapChannel
    \/ SnapCheck
    \/ SnapReturn
    \/ VideoCall
    \/ ZStackCall
    \/ ZStackReturn
    \/ TimePointEnd
    \/ Completed
    \/ go_to_button_clicked
    \/ browse_button_clicked
    \/ start_acquisition_button_clicked
    \/ remove_region_button_clicked

ControllerSpec == ControllerInit /\ [][ControllerNext]_vars

----------------------------------------------------------------------------
(* Runs of a z-stack whose camera puts more frames into the buffer than asked *)

\* frames the camera delivers beyond the length of the sequence
MaxOverrun == 1

OverrunPlans ==
    { Settings(StandardOrder, Grid({<<0, 0>>}, RegionSettings(<<>>, <<>>, <<"GFP">>)),
               FALSE, 1, lsrm) : lsrm \in BOOLEAN }

OverrunInit == ConstructedFrom(OverrunPlans) /\ DirectoryChosen

\* the triggered camera has delivered the frames asked for and, before the worker
\* stops the sequence, puts one more into the circular buffer
CameraOverrun ==
    /\ pc \in {"z_stack_outer", "z_stack_inner"}
    /\ core.requested > 0
    /\ core.produced >= core.requested
    /\ core.produced < core.requested + MaxOverrun
    /\ core' = [core EXCEPT !.remaining_image_count = @ + 1, !.produced = @ + 1]
    /\ UNCHANGED <<built, pc, ctl, loopvars, capvars, wait_left, hw,
                   store, status, abort_count, last_move, crash>>

OverrunNext ==
    \/ RunEntry
    \/ TimePointHead
    \/ RegionStep
    \/ SnapCall
    \/ VideoCall
    \/ ZStackCall
    \/ ZStackChannel
    \/ ZStackOuter
    \/ ZStackInner
    \/ ZStackCheck
    \/ ZStackReturn
    \/ TimePointEnd
    \/ Completed
    \/ CameraFrame
    \/ CameraOverrun

OverrunSpec == OverrunInit /\ [][OverrunNext]_vars

----------------------------------------------------------------------------
(* MMHardwareCommands.move_stage, statement by statement *)

\* largest stage coordinate explored, on each axis
MaxStagePosition == 1

StagePositions == 0..MaxStagePosition

\* the worker is at line 315 of run and the stage rests where earlier moves or the
\* joystick left it; hw also holds the two axis groups of the stage and the frame
\* of the move_stage call
MoveInit ==
    /\ acquisition_settings = RunPlan
    /\ start_acquisition_button = FALSE
    /\ acquisitions_started = 1
    /\ go_to_moves = 0
    /\ DirectoryChosen
    /\ pc = "move_stage"
    /\ abort_boolean = FALSE
    /\ abort_dialog = FALSE
    /\ abort_set_at = "never"
    /\ opened_at_abort = 0
    /\ settings_num_time_points = 1
    /\ num_time_points = 0
    /\ sample_num = 0
    /\ region_num = 0
    /\ channel_idx = 1
    /\ framerate = Unbound
    /\ cur_frame = 0
    /\ timeout = 0
    /\ wait_left = 0
    /\ core = [sequence_running |-> FALSE, remaining_image_count |-> 0,
               requested |-> 0, produced |-> 0, will |-> 0,
               shutter_open |-> FALSE, auto_shutter |-> TRUE]
    /\ \E x \in StagePositions, y \in StagePositions, z \in StagePositions :
         hw = [camera_properties |-> "Default", exposure |-> "default_exposure",
               scan_mode |-> "not_scanning",
               lightsheet_readout_framerate |-> DefaultLightsheetFramerate,
               plc |-> "none", stage_scanning |-> FALSE, joystick_reset |-> FALSE,
               waited |-> {}, issued |-> TRUE,
               xy_position |-> <<x, y>>, z_position |-> z,
               xy_target |-> <<x, y>>, z_target |-> z,
               xy_busy |-> FALSE, z_busy |-> FALSE,
               commanded |-> <<>>,
               call |-> [x_position |-> x, y_position |-> y, z_position |-> z,
                         current_x_position |-> x]]
    /\ data = NoData
    /\ opened = <<>>
    /\ captures = <<>>
    /\ acquisition_label = "Moving to start position..."
    /\ log_messages = 0
    /\ abort_count = 0
    /\ last_move = NoSlot
    /\ crash = "none"

\* everything but the worker's position and the hardware
movevars == <<built, ctl, loopvars, capvars, wait_left, core, store, status,
              abort_count, last_move, crash>>

\* lines 246-252 and 257: the speeds are set, the current X is read and compared
\* with the target X
MoveStageEntry ==
    /\ pc = "move_stage"
    /\ \E x_position \in StagePositions, y_position \in StagePositions,
          z_position \in StagePositions :
         LET current_x_position == hw.xy_position[1]
         IN  /\ hw' = [hw EXCEPT !.commanded = <<>>,
                                 !.call = [x_position |-> x_position,
                                           y_position |-> y_position,
                                           z_position |-> z_position,
                                           current_x_position |-> current_x_position]]
             /\ pc' = IF current_x_position > x_position
                      THEN "move_253" ELSE "move_258"
    /\ UNCHANGED movevars

\* core.set_position(z_stage_name, z_position): the Z stage starts to move
SetPosition(here, next) ==
    /\ pc = here
    /\ hw' = [hw EXCEPT !.z_target = hw.call.z_position, !.z_busy = TRUE,
                        !.commanded = Append(@, "z")]
    /\ pc' = next
    /\ UNCHANGED movevars

\* core.set_xy_position(x_position, y_position): the X/Y stage starts to move
SetXYPosition(here, next) ==
    /\ pc = here
    /\ hw' = [hw EXCEPT !.xy_target = <<hw.call.x_position, hw.call.y_position>>,
                        !.xy_busy = TRUE, !.commanded = Append(@, "xy")]
    /\ pc' = next
    /\ UNCHANGED movevars

\* a wait_for_device that returns at once
WaitForDeviceReturnsAtOnce(here, next, busy) ==
    /\ pc = here
    /\ pc' = next
    /\ UNCHANGED <<hw, movevars>>

\* core.wait_for_device(name) returns when the device is no longer busy
WaitForDevice(here, next, busy) ==
    /\ pc = here
    /\ ~busy
    /\ pc' = next
    /\ UNCHANGED <<hw, movevars>>

\* lines 253-256: Z, then X/Y
MoveZFirst == SetPosition("move_253", "move_254")

WaitZFirst == WaitForDevice("move_254", "move_255", hw.z_busy)

MoveXYSecond == SetXYPosition("move_255", "move_256")

WaitXYSecond == WaitForDevice("move_256", "move_returned", hw.xy_busy)

\* lines 258-261: X/Y, then Z
MoveXYFirst == SetXYPosition("move_258", "move_259")

WaitXYFirst == WaitForDevice("move_259", "move_260", hw.xy_busy)

MoveZSecond == SetPosition("move_260", "move_261")

WaitZSecond == WaitForDevice("move_261", "move_returned", hw.z_busy)

\* the X/Y stage reaches the position it was sent to
XYStageArrives ==
    /\ hw.xy_busy
    /\ hw' = [hw EXCEPT !.xy_position = hw.xy_target, !.xy_busy = FALSE]
    /\ UNCHANGED <<pc, movevars>>

\* the Z stage reaches the position it was sent to
ZStageArrives ==
    /\ hw.z_busy
    /\ hw' = [hw EXCEPT !.z_position = hw.z_target, !.z_busy = FALSE]
    /\ UNCHANGED <<pc, movevars>>

MoveNext ==
    \/ MoveStageEntry
    \/ MoveZFirst
    \/ WaitZFirst
    \/ MoveXYSecond
    \/ WaitXYSecond
    \/ MoveXYFirst
    \/ WaitXYFirst
    \/ MoveZSecond
    \/ WaitZSecond
    \/ XYStageArrives
    \/ ZStageArrives

MoveSpec == MoveInit /\ [][MoveNext]_vars

----------------------------------------------------------------------------
(* AcquisitionSettings.remove_region_settings on grids of several samples *)

\* rows of the grids explored
RemoveSampleDim == 3
\* slots per row of the grids explored
RemoveRegionDim == 3

\* the region the user set at slot (s, r); its position tells it from the others
RegionSetAt(s, r) == [SnapRegion EXCEPT !.z_start_position = s * RemoveRegionDim + r + 1]

\* the grid whose sample s holds regions 0 .. filled[s] - 1
FilledGrid(filled) ==
    [s \in 0..(RemoveSampleDim - 1) |->
        [r \in 0..(RemoveRegionDim - 1) |->
            IF r < filled[s] THEN RegionSetAt(s, r) ELSE Unset]]

\* the grids the dialog builds: regions are set one after the other within a
\* sample, and a sample is begun only when the one before it holds a region
BuiltGrids ==
    { FilledGrid(filled) :
        filled \in { f \in [0..(RemoveSampleDim - 1) -> 0..RemoveRegionDim] :
                       \A s \in 1..(RemoveSampleDim - 1) : f[s - 1] = 0 => f[s] = 0 } }

\* the dialog is open, no Acquisition has been constructed
RemoveInit ==
    /\ \E grid \in BuiltGrids :
         acquisition_settings = Settings(StandardOrder, grid, FALSE, 1, FALSE)
    /\ start_acquisition_button = FALSE
    /\ acquisitions_started = 0
    /\ go_to_moves = 0
    /\ DirectoryChosen
    /\ pc = "dialog"
    /\ abort_boolean = FALSE
    /\ abort_dialog = FALSE
    /\ abort_set_at = "never"
    /\ opened_at_abort = 0
    /\ settings_num_time_points = 1
    /\ num_time_points = 0
    /\ sample_num = 0
    /\ region_num = 0
    /\ channel_idx = 1
    /\ framerate = Unbound
    /\ cur_frame = 0
    /\ timeout = 0
    /\ wait_left = 0
    /\ core = [sequence_running |-> FALSE, remaining_image_count |-> 0,
               requested |-> 0, produced |-> 0, will |-> 0,
               shutter_open |-> FALSE, auto_shutter |-> TRUE]
    /\ hw = [camera_properties |-> "Default", exposure |-> "default_exposure",
             scan_mode |-> "not_scanning",
             lightsheet_readout_framerate |-> DefaultLightsheetFramerate,
             plc |-> "none", stage_scanning |-> FALSE, joystick_reset |-> FALSE,
             waited |-> {}, issued |-> FALSE]
    /\ data = NoData
    /\ opened = <<>>
    /\ captures = <<>>
    /\ acquisition_label = ""
    /\ log_messages = 0
    /\ abort_count = 0
    /\ last_move = NoSlot
    /\ crash = "none"

\* line 67 indexes region_settings_list[sample_num + 1], which the list of
\* sample_dimension rows does not have when sample_num is the last sample
RemoveRaises(list, sample_num_) == sample_num_ + 1 >= sample_dimension(list)

\* line 660 of Controller.py: remove_region_settings for the region the dialog
\* shows, self.sample_num and self.region_num being the dialog's indices
RemoveRegion ==
    /\ pc = "dialog"
    /\ \E s \in 0..(RemoveSampleDim - 1), r \in 0..(RemoveRegionDim - 1) :
         /\ acquisition_settings.region_settings_list[s][r].committed
         /\ sample_num' = s
         /\ region_num' = r
         /\ acquisition_settings' =
              [acquisition_settings EXCEPT !.region_settings_list =
                 remove_region_settings(@, s, r)]
         /\ crash' = IF RemoveRaises(acquisition_settings.region_settings_list, s)
                     THEN "index_error" ELSE "none"
    /\ UNCHANGED <<controller, existing, directory, dir_i, dir_pc, pc, ctl,
                   settings_num_time_points, num_time_points, capvars, wait_left,
                   devices, store, status, abort_count, last_move>>

RemoveNext == RemoveRegion

RemoveSpec == RemoveInit /\ [][RemoveNext]_vars

----------------------------------------------------------------------------
(* A z-stack run that nobody aborts, with a fair worker and a fair camera *)

\* the steps of the worker thread in such a run
WorkerStep ==
    \/ RunEntry
    \/ TimePointHead
    \/ RegionStep
    \/ SnapCall
    \/ VideoCall
    \/ ZStackCall
    \/ ZStackChannel
    \/ ZStackOuter
    \/ ZStackInner
    \/ ZStackCheck
    \/ ZStackReturn
    \/ TimePointEnd
    \/ Completed

\* the worker thread is scheduled, every device call returns, and a camera that
\* has a frame to deliver delivers it
FairSpec ==
    /\ OverrunInit
    /\ [][ZNext]_vars
    /\ WF_vars(WorkerStep)
    /\ WF_vars(CameraFrame)

----------------------------------------------------------------------------
(* Specification *)

Next ==
    \/ abort_button_clicked
    \/ abort_confirm_button_clicked
    \/ cancel_button_clicked
    \/ RunEntry
    \/ TimePointHead
    \/ RegionStep
    \/ SnapCall
    \/ SnapChannel
    \/ SnapCheck
    \/ SnapReturn
    \/ VideoCall
    \/ VideoChannel
    \/ VideoDrain
    \/ VideoRunning
    \/ VideoCheck
    \/ VideoReturn
    \/ ZStackCall
    \/ ZStackChannel
    \/ ZStackOuter
    \/ ZStackInner
    \/ ZStackCheck
    \/ ZStackReturn
    \/ TimePointEnd
    \/ Waiting
    \/ abort_acquisition
    \/ AbortRestoreDefault
    \/ AbortWaitForStages
    \/ AbortResetJoystick
    \/ AbortPublish
    \/ Completed
    \/ CameraFrame
    \/ HardwareCommandFailure

Spec == Init /\ [][Next]_vars

----------------------------------------------------------------------------
(* Vocabulary of the properties *)

Terminal == pc \in {"successful", "aborted", "crashed"}

\* the flag was confirmed while run was executing and is still set
AbortRequestedInRun ==
    /\ abort_boolean
    /\ abort_set_at \notin {"never", "created", "successful", "aborted", "crashed"}

Modalities == {"snap", "video", "zStack"}

Returns == {"snap_return", "video_return", "z_stack_return"}

RegionAt(s, r) == acquisition_settings.region_settings_list[s][r]

\* the channels a region asks for in a modality; none when the modality is off
ChannelList(region, m) ==
    CASE m = "snap" -> IF region.snap_boolean THEN region.snap_channel_list ELSE <<>>
      [] m = "video" -> IF region.video_boolean THEN region.video_channel_list ELSE <<>>
      [] m = "zStack" ->
            IF region.z_stack_boolean THEN region.z_stack_channel_list ELSE <<>>

\* order restricted to the channels of list, in the relative order of order
FilterOrder(order, list) ==
    SelectSeq(order, LAMBDA c : \E i \in 1..Len(list) : list[i] = c)

\* the channels for which a datastore was opened for (time point, slot, modality)
Captured(tp, s, r, m) ==
    LET hits == SelectSeq(opened, LAMBDA p : /\ p[1] = s + 1 /\ p[2] = r + 1
                                             /\ p[3] = m /\ p[5] = tp + 1)
    IN  [i \in 1..Len(hits) |-> hits[i][4]]

IsPrefix(a, b) == Len(a) <= Len(b) /\ SubSeq(b, 1, Len(a)) = a

\* the modality whose capture function has just returned
ReturnedModality ==
    CASE pc = "snap_return" -> "snap"
      [] pc = "video_return" -> "video"
      [] pc = "z_stack_return" -> "zStack"

\* a capture function is at one of its reads of the flag and the flag is set
ObservesAbort ==
    /\ abort_boolean
    /\ CASE pc \in {"snap_check", "video_check", "z_stack_check"} -> TRUE
         [] pc = "video_drain" -> core.remaining_image_count > 0
         [] pc = "video_running" -> core.sequence_running
         [] pc = "z_stack_inner" -> cur_frame < num_frames
         [] OTHER -> FALSE

\* the safe default state of the hardware
SafeDefaultState ==
    /\ ~core.sequence_running
    /\ hw.camera_properties = "Default"
    /\ hw.exposure = "default_exposure"
    /\ hw.scan_mode # "lightsheet_readout"
    /\ ~hw.stage_scanning
    /\ hw.joystick_reset

----------------------------------------------------------------------------
(* Properties *)

\* C1: a run in which the abort flag was confirmed while it was executing, and
\* which has ended without an exception, has executed abort_acquisition exactly
\* once; no run executes it more than once.
C1_ShutdownExactlyOnce ==
    /\ abort_count <= 1
    /\ (pc \in {"successful", "aborted"} /\ AbortRequestedInRun) => abort_count = 1

\* C2: a run in which the abort flag was confirmed while it was executing never
\* publishes the success status; when it has ended it has published "Aborted".
C2_AbortNeverSwallowed ==
    /\ (pc = "successful") => ~AbortRequestedInRun
    /\ (Terminal /\ AbortRequestedInRun /\ crash = "none") =>
          (pc = "aborted" /\ acquisition_label = "Aborted")

\* C3: once a drain loop has recorded its timeout the loop is over: its condition
\* is false, so the worker leaves it at its next step, and the failure is recorded
\* once, not again and again.
C3_TimeoutEndsDrain ==
    /\ (pc = "video_drain" /\ log_messages > 0) => ~DrainCondition
    /\ IF pc = "z_stack_inner" /\ log_messages > 0
       THEN ~(cur_frame < num_frames)
       ELSE TRUE
    /\ log_messages <= 1

\* the channels run is to capture for (time point, slot, modality), in order
Wanted(s, r, m) ==
    FilterOrder(acquisition_settings.channel_order_list, ChannelList(RegionAt(s, r), m))

\* the (time point, sample, region, modality) of every datastore opened so far
OpenedKeys ==
    { <<opened[i][5] - 1, opened[i][1] - 1, opened[i][2] - 1, opened[i][3]>> :
        i \in 1..Len(opened) }

\* C4: for every time point, slot and modality the channels captured so far are a
\* prefix of channel_order_list restricted to the region's list for the modality
\* (nothing is captured where nothing was opened); they are exactly that list when
\* the capture function has returned without the flag set, and for every time
\* point, slot and modality of a run that has published success.
C4_ChannelFiltering ==
    /\ \A k \in OpenedKeys :
          IsPrefix(Captured(k[1], k[2], k[3], k[4]), Wanted(k[2], k[3], k[4]))
    /\ IF pc \in Returns /\ ~abort_boolean
       THEN Captured(num_time_points, sample_num, region_num, ReturnedModality)
               = Wanted(sample_num, region_num, ReturnedModality)
       ELSE TRUE
    /\ pc = "successful" =>
          \A tp \in 0..(settings_num_time_points - 1), slot \in Slots, m \in Modalities :
              Captured(tp, slot[1], slot[2], m) = Wanted(slot[1], slot[2], m)

\* C4, its case: the spec's example, GFP then BF and never RFP
C4_Witness ==
    /\ pc = "snap_return"
    /\ ~abort_boolean
    /\ acquisition_settings.channel_order_list = <<"GFP", "BF", "RFP">>
    /\ region_settings.snap_channel_list = <<"BF", "GFP">>
    /\ Captured(num_time_points, sample_num, region_num, "snap") = <<"GFP", "BF">>

\* C5: no stage move and no capture is made for an unset slot, and no run ends
\* on an error caused by an unset slot.
C5_SparseRegionSkip ==
    /\ last_move # NoSlot => RegionAt(last_move[1], last_move[2]).committed
    /\ \A i \in 1..Len(opened) : RegionAt(opened[i][1] - 1, opened[i][2] - 1).committed
    /\ crash # "unset_region"

\* C6: a run that has ended through Completed or through Aborting has left the
\* hardware in the safe default state.
C6_SafeDefaultAtEnd ==
    pc \in {"successful", "aborted"} => SafeDefaultState

\* C7: a run ended by a failing device call has executed the safe-shutdown
\* sequence, left the hardware in the safe default state and published a fatal error.
C7_FailureShutsDown ==
    (pc = "crashed" /\ crash = "device_error") =>
        /\ abort_count = 1
        /\ SafeDefaultState
        /\ acquisition_label = "Fatal error"

\* C8: for a plan that breaks the data-model invariant the run does not begin: no
\* hardware command has been issued and no datastore opened.
C8_InvalidPlanRefused ==
    ~ValidPlan(acquisition_settings) =>
        /\ ~hw.issued
        /\ opened = <<>>
        /\ pc \in {"created", "crashed"}

\* C9: a capture function that reads the flag set closes its datastore and returns
\* to run with the devices untouched; run then goes to abort_acquisition, the only
\* step that executes the shutdown, which it does at most once.
C9_CaptureLeavesResetToRun ==
    [][ /\ (ObservesAbort /\ pc' # pc) =>
              /\ pc' \in Returns
              /\ ~data'.open
              /\ data'.closes = data.closes + 1
              /\ devices' = devices
              /\ abort_count' = abort_count
        /\ (pc \in Returns /\ abort_boolean /\ pc' # pc) => pc' = "abort_acquisition"
        /\ (abort_count' # abort_count) =>
              /\ pc = "abort_acquisition"
              /\ abort_count = 0
              /\ abort_count' = 1 ]_vars

\* C9, its case: z_stack_acquisition has returned on the flag in the middle of its
\* drain, with the sequence still running and the stage still scanning
C9_Witness ==
    /\ pc = "z_stack_return"
    /\ abort_boolean
    /\ ~data.open
    /\ data.closes = 1
    /\ core.sequence_running
    /\ hw.stage_scanning
    /\ abort_count = 0

\* C10: as long as no confirmation was given the flag is unset and the run is on
\* no abort path, however often the prompt was shown or cancelled.
C10_OnlyConfirmationSetsFlag ==
    abort_set_at = "never" =>
        /\ ~abort_boolean
        /\ abort_count = 0
        /\ pc \notin {"abort_acquisition", "aborted"}
        /\ acquisition_label # "Aborted"

\* C10, its case: the prompt is showing, no confirmation was ever given, and the
\* run has ended in success
C10_Witness ==
    /\ abort_dialog
    /\ abort_set_at = "never"
    /\ pc = "successful"
    /\ opened # <<>>

\* C11: once the abort flag is set, no step of either thread clears it.
C11_FlagMonotonic ==
    [][abort_boolean => abort_boolean']_vars

\* a precedes b in the lexicographic order of index tuples of length 5
LexLess(a, b) ==
    \E i \in 1..5 : a[i] < b[i] /\ \A j \in 1..(i - 1) : a[j] = b[j]

ModalityOfRank(rank) ==
    CASE rank = 1 -> "snap" [] rank = 2 -> "video" [] rank = 3 -> "zStack"

\* C12: every capture starts when no other datastore is open, is the capture its
\* path names (time point, sample, region, modality, channel at its position in
\* channel_order_list), and comes strictly after the capture before it in the
\* lexicographic order of (time point, sample, region, modality, channel position).
C12_StrictOrdering ==
    [][captures' # captures =>
          LET k == captures'[Len(captures')]
          IN  /\ ~data.open
              /\ captures' = Append(captures, k)
              /\ Len(opened') = Len(captures')
              /\ opened'[Len(opened')] =
                   <<k[2] + 1, k[3] + 1, ModalityOfRank(k[4]),
                     acquisition_settings.channel_order_list[k[5]], k[1] + 1>>
              /\ captures # <<>> => LexLess(captures[Len(captures)], k)]_vars

\* C12, its case: a run has captured in two time points and has ended in success
C12_Witness ==
    /\ pc = "successful"
    /\ Len(captures) >= 4
    /\ captures[1][1] < captures[Len(captures)][1]
    /\ captures[1][5] < captures[2][5]

\* the time points a run is to traverse: num_time_points when time-lapse is
\* enabled and num_time_points is not 0, otherwise 1
EffectiveCount ==
    IF acquisition_settings.time_points_boolean
       /\ acquisition_settings.num_time_points # 0
    THEN acquisition_settings.num_time_points
    ELSE 1

FirstFree ==
    CHOOSE k \in 0..(MaxDirSuffix + 1) :
        /\ DirName(k) \notin existing
        /\ \A j \in 0..(k - 1) : DirName(j) \in existing

\* C14: initial_dir_check returns the first name of Acquisition, Acquisition1,
\* Acquisition2, ... that does not exist, and never the name of an existing
\* directory; with Acquisition and Acquisition1 existing it returns Acquisition2.
C14_FirstFreeDirectory ==
    dir_pc = "returned" =>
        /\ directory = DirName(FirstFree)
        /\ ~IsDir(directory)
        /\ existing = {<<"Acquisition">>, <<"Acquisition", "1">>} =>
              directory = <<"Acquisition", "2">>

\* C14, its case: Acquisition and Acquisition1 to Acquisition9 exist and the
\* function has returned Acquisition10
C14_Witness ==
    /\ dir_pc = "returned"
    /\ existing = {DirName(k) : k \in 0..9}
    /\ directory = <<"Acquisition", "1", "0">>

\* the path the source builds from the loop indices k of a capture
PathOfIndex(k) ==
    <<k[2] + 1, k[3] + 1, ModalityOfRank(k[4]),
      acquisition_settings.channel_order_list[k[5]], k[1] + 1>>

\* C15: every datastore is opened at the path built from the indices of its
\* capture, and no two datastores of the run are opened at the same path.
C15_PathsUnique ==
    /\ Len(opened) = Len(captures)
    /\ \A i \in 1..Len(opened) : opened[i] = PathOfIndex(captures[i])
    /\ \A i, j \in 1..Len(opened) : opened[i] = opened[j] => i = j

\* the integer nearest to n / d for n >= 0 and d > 0, the even one of two that are
\* equally near
NearestInteger(n, d) ==
    CHOOSE k \in 0..(n + 1) :
        /\ 2 * Abs(k * d - n) <= d
        /\ 2 * Abs(k * d - n) = d => k % 2 = 0

\* the distance between the ends of the z range of the region being captured
ZDistance ==
    LET a == region_settings.z_start_position
        b == region_settings.z_end_position
    IN  IF a <= b THEN b - a ELSE a - b

\* C16: every step that starts the sequence of a z-stack channel asks the camera
\* for round(|z_end - z_start| / step_size) frames, the count depends on the
\* distance only and so is the same in both directions, and the range 0 to 100
\* in steps of 10 asks for 10 frames.
C16_ZStackFrameCount ==
    [][pc = "z_stack_channel" /\ pc' = "z_stack_outer" =>
         /\ core'.requested = NearestInteger(ZDistance, region_settings.step_size)
         /\ region_settings.z_start_position = 0 /\ region_settings.z_end_position = 100
              /\ region_settings.step_size = 10 => core'.requested = 10]_vars

\* the sequence of a z-stack from 5 down to 0 in steps of 2 has been started and
\* asks for 2 frames
C16_Witness ==
    /\ pc = "z_stack_outer"
    /\ region_settings.z_start_position = 5
    /\ region_settings.z_end_position = 0
    /\ region_settings.step_size = 2
    /\ opened = << <<1, 1, "zStack", "GFP", 1>> >>
    /\ core.sequence_running
    /\ core.requested = 2

\* RegionSettings.video_exposure_time, in milliseconds
VideoExposureMs == 20

\* C17: every step that opens the datastore of a video channel with the camera in
\* Default mode starts a sequence of round(1000 / exposure) x duration frames,
\* whatever was captured before it.
C17_VideoFrameCount ==
    [][/\ pc = "video_channel"
       /\ Len(captures') = Len(captures) + 1
       /\ hw'.camera_properties = "Default"
       => /\ pc' = "video_drain"
          /\ core'.requested = NearestInteger(1000, VideoExposureMs)
                                 * region_settings.video_duration_in_seconds]_vars

\* run() is executing: it has passed its first statement and has not published a
\* terminal status
RunActive == pc # "created" /\ ~Terminal

\* C18: while a run is active no step issues a stage move from the go-to button
\* and no step starts another Acquisition thread.
C18_ExclusiveOwnership ==
    [][RunActive => /\ go_to_moves' = go_to_moves
                    /\ acquisitions_started' = acquisitions_started]_vars

\* the datastore paths a run of plan opens when nothing interrupts it
PlannedPaths(plan) ==
    { <<slot[1] + 1, slot[2] + 1, m, channel, tp + 1>> :
        slot \in { sl \in Slots : plan.region_settings_list[sl[1]][sl[2]].committed },
        m \in Modalities,
        channel \in {"BF", "GFP", "RFP", "CFP"},
        tp \in 0..MaxTimePoints } \cap
    { p \in (1..SampleDim) \X (1..RegionDim) \X Modalities
              \X {"BF", "GFP", "RFP", "CFP"} \X (1..(MaxTimePoints + 1)) :
        /\ p[5] <= (IF plan.time_points_boolean /\ plan.num_time_points # 0
                    THEN plan.num_time_points ELSE 1)
        /\ InList(p[4], plan.channel_order_list)
        /\ InList(p[4], ChannelList(plan.region_settings_list[p[1] - 1][p[2] - 1], p[3])) }

\* C19: a run that publishes success has captured exactly the regions,
\* modalities, channels and time points of the plan it was constructed with,
\* whatever the control thread edited meanwhile.
C19_PlanIsSnapshot ==
    pc = "successful" => { opened[i] : i \in 1..Len(opened) } = PlannedPaths(RunPlan)

\* the positions of the worker in abort_acquisition, then the position after it
AbortingOrder ==
    <<"abort_acquisition", "abort_default", "abort_wait", "abort_joystick",
      "abort_publish", "aborted">>

\* C20: every step the worker takes inside abort_acquisition leads to the next
\* statement of the order stop and clear, restore Default at the default exposure,
\* wait for the stages, reset the joystick, publish "Aborted", with the effect of
\* that statement, so that none is omitted; "Aborted" is published only in a
\* state where the four hardware steps are done.
C20_AbortingOrder ==
    [][/\ \A i \in 1..5 :
            (pc = AbortingOrder[i] /\ pc' # pc) => pc' = AbortingOrder[i + 1]
       /\ (pc = "abort_acquisition" /\ pc' # pc) =>
            ~core'.sequence_running /\ core'.remaining_image_count = 0
       /\ (pc = "abort_default" /\ pc' # pc) =>
            hw'.camera_properties = "Default" /\ hw'.exposure = "default_exposure"
       /\ (pc = "abort_wait" /\ pc' # pc) => ~hw'.stage_scanning
       /\ (pc = "abort_joystick" /\ pc' # pc) => hw'.joystick_reset
       /\ (acquisition_label' = "Aborted" /\ acquisition_label # "Aborted") =>
            /\ pc = "abort_publish"
            /\ ~core.sequence_running /\ core.remaining_image_count = 0
            /\ hw.camera_properties = "Default" /\ hw.exposure = "default_exposure"
            /\ ~hw.stage_scanning
            /\ hw.joystick_reset]_vars

\* the hardware baseline run forces on entry
Baseline ==
    /\ ~core.sequence_running
    /\ core.remaining_image_count = 0
    /\ ~core.shutter_open
    /\ core.auto_shutter

\* no stage move, no mode change and no capture has been made yet
Untouched ==
    /\ last_move = NoSlot
    /\ opened = <<>>
    /\ hw.camera_properties = "Default" /\ hw.exposure = "default_exposure"
    /\ hw.scan_mode = "not_scanning" /\ hw.plc = "none"

\* C21: the step that leaves the entry of run leaves the camera stopped, the
\* buffer empty, the shutter closed and auto-shutter enabled, with no stage move,
\* mode change or capture made; and the first step that moves the stage, changes
\* a mode or opens a datastore starts in that baseline.
C21_BaselineFirst ==
    [][/\ (pc = "created" /\ pc' = "time_point") => Baseline' /\ Untouched'
       /\ (Untouched /\ ~Untouched') => (Baseline /\ pc # "created")]_vars

\* the run has made its first stage move, to region (0,0), with the camera in
\* the baseline and nothing captured yet
C21_Witness ==
    /\ pc = "snap_call"
    /\ last_move = <<0, 0>>
    /\ opened = <<>>
    /\ Baseline

\* run has read the flag set and has not left abort_acquisition for a crash
OnAbortPath ==
    pc \in {"abort_acquisition", "abort_default", "abort_wait", "abort_joystick",
            "abort_publish", "aborted"}

\* C22: the step run takes after a modality call with the flag set goes to
\* abort_acquisition and touches no device; from then on no step moves the stage
\* for a region, opens a datastore or returns to the loops, and the hardware is
\* commanded by the statements of abort_acquisition only.
C22_NothingAfterObservation ==
    [][/\ (pc \in Returns /\ abort_boolean /\ pc' # pc) =>
            /\ pc' = "abort_acquisition"
            /\ hw' = hw
            /\ opened' = opened
            /\ last_move' = last_move
       /\ OnAbortPath =>
            /\ pc' \in {"abort_acquisition", "abort_default", "abort_wait",
                        "abort_joystick", "abort_publish", "aborted", "crashed"}
            /\ opened' = opened
            /\ captures' = captures
            /\ last_move' = last_move
            /\ hw' # hw => pc \in {"abort_default", "abort_wait", "abort_joystick"}
            /\ (core' # core /\ pc' # pc) => pc = "abort_acquisition"]_vars

\* the flag was read after the snap of region (0,0); the run is aborted with one
\* datastore opened, and region (0,1) of the plan was never moved to
C22_Witness ==
    /\ pc = "aborted"
    /\ RegionAt(0, 1).committed
    /\ last_move = <<0, 0>>
    /\ Len(opened) = 1
    /\ opened[1][3] = "snap"

\* C23: the step of snap_acquisition that processes a channel opens the
\* datastore of that channel, writes one frame to it, closes it once and leaves
\* the frame buffer empty; and a closed snap datastore holds exactly one frame.
C23_OneFramePerSnap ==
    [][/\ (pc = "snap_channel" /\ pc' = "snap_check") =>
            /\ opened' = Append(opened, <<sample_num + 1, region_num + 1, "snap",
                                          acquisition_settings.channel_order_list[channel_idx],
                                          num_time_points + 1>>)
            /\ data'.path = opened'[Len(opened')]
            /\ data'.frames = 1
            /\ ~data'.open
            /\ data'.closes = 1
            /\ core'.remaining_image_count = 0
       /\ IF data'.path # <<>>
          THEN (data'.path[3] = "snap" /\ ~data'.open) => data'.frames = 1
          ELSE TRUE]_vars

\* the second channel of a snap has been captured: its datastore is closed with
\* one frame in it
C23_Witness ==
    /\ pc = "snap_check"
    /\ Len(opened) = 2
    /\ data.path = opened[2]
    /\ data.path[3] = "snap"
    /\ data.frames = 1
    /\ ~data.open
    /\ core.remaining_image_count = 0

\* C24: the step snap_acquisition takes at the check after a channel with the
\* flag set leaves the datastore closed and returns to run at once: it opens no
\* datastore and commands neither the camera nor the hardware, so no later channel
\* of the invocation is configured, opened or snapped; with the flag unset the
\* step goes on to the next channel.
C24_SnapReturnsOnAbort ==
    [][(pc = "snap_check" /\ pc' # pc) =>
         IF abort_boolean
         THEN /\ pc' = "snap_return"
              /\ ~data'.open
              /\ data'.frames = data.frames
              /\ opened' = opened
              /\ captures' = captures
              /\ devices' = devices
         ELSE pc' = "snap_channel" /\ channel_idx' = channel_idx + 1]_vars

\* snap_acquisition has returned on the flag after the first of the two channels
\* the region lists
C24_Witness ==
    /\ pc = "snap_return"
    /\ abort_boolean
    /\ Len(opened) = 1
    /\ opened[1][3] = "snap"
    /\ Len(Wanted(sample_num, region_num, "snap")) = 2
    /\ ~data.open

\* C25: in the drain of a video channel the frames written are stamped 0, 1, 2,
\* ... (as many are written as the frame index has advanced), and the step that
\* leaves the loop without a recorded timeout leaves no delivered frame in the
\* buffer: the datastore then holds every frame the camera delivered.
C25_VideoDrainComplete ==
    [][/\ pc' \in {"video_drain", "video_running"} => data'.frames = cur_frame'
       /\ (pc = "video_running" /\ pc' = "video_check" /\ log_messages = 0) =>
            /\ core.remaining_image_count = 0
            /\ data'.frames = core.produced]_vars

\* the worker is at an iteration of a drain body and the flag is not set
DrainIteration ==
    /\ ~abort_boolean
    /\ \/ pc = "video_drain" /\ core.remaining_image_count > 0
       \/ pc = "video_running" /\ core.sequence_running
       \/ pc = "z_stack_inner" /\ cur_frame < num_frames

\* the counter is 0 when a sequence starts, every written frame resets it, and it
\* changes otherwise only by growing by 1 in an iteration that finds the buffer
\* empty and writes nothing
CounterRules ==
    /\ (pc \in {"video_channel", "z_stack_channel"}
          /\ pc' \in {"video_drain", "z_stack_outer"}) => timeout' = 0
    /\ data'.frames = data.frames + 1 => timeout' = 0
    /\ timeout' # timeout =>
          \/ timeout' = 0
          \/ /\ timeout' = timeout + 1
             /\ DrainIteration
             /\ data' = data
             /\ core'.remaining_image_count = 0

\* the failure is declared by the iteration that starts with n empty polls counted
\* and by no iteration that starts with fewer
DeclaredAt(n) ==
    /\ log_messages' > log_messages => timeout >= n
    /\ (DrainIteration /\ timeout = n /\ timeout' # timeout) =>
          acquisition_label' = "failed"

\* C26 as stated: the counter follows its rules and the failure is declared when
\* 500 consecutive empty polls have been counted, never with fewer.
C26_ThresholdAsStated == [][CounterRules /\ DeclaredAt(TimeoutThreshold)]_vars

\* C26: the counter follows its rules and the failure is declared when more than
\* 500 consecutive empty polls have been counted, that is by the iteration that
\* starts with 501, and never with 500 or fewer.
C26_ThresholdExceeded == [][CounterRules /\ DeclaredAt(TimeoutThreshold + 1)]_vars

\* a drain has declared its timeout, once, after 501 empty polls
C26_Witness ==
    /\ pc \in {"video_drain", "z_stack_inner"}
    /\ timeout = TimeoutThreshold + 2
    /\ log_messages = 1
    /\ acquisition_label = "failed"

BetweenZStackChannels ==
    /\ pc \in {"z_stack_check", "z_stack_channel"}
    /\ captures # <<>>
    /\ captures[Len(captures)] \in
         { <<num_time_points, sample_num, region_num, 3, i>> : i \in 1..(channel_idx) }
    /\ ~data.open

C29_BetweenTimePoints ==
    [][/\ pc' = "waiting" =>
            /\ pc \in {"time_point_end", "waiting"}
            /\ acquisition_settings.time_points_boolean
            /\ num_time_points + 1 < settings_num_time_points
            /\ last_move' = <<0, 0>>
            /\ ~hw'.stage_scanning
       /\ (pc = "time_point_end" /\ pc' # pc /\ pc' # "waiting") =>
            /\ hw' = hw
            /\ last_move' = last_move
       /\ (pc = "time_point_end" /\ pc' # pc
             /\ num_time_points + 1 >= settings_num_time_points) =>
            /\ pc' \in {"time_point", "abort_acquisition"}
            /\ hw' = hw
            /\ last_move' = last_move]_vars

\* the first of two time points is over, the stage is back at region (0,0) after
\* a capture at region (0,1), and the wait has begun
C29_Witness ==
    /\ pc = "waiting"
    /\ num_time_points = 0
    /\ settings_num_time_points = 2
    /\ last_move = <<0, 0>>
    /\ Len(opened) >= 1
    /\ opened[Len(opened)][2] = 2

\* C30: an iteration of the wait that finds the flag set goes to
\* abort_acquisition; the wait is left for the next time point only when no
\* waiting time is left, and then the index advances to a time point of the plan;
\* a flag set during the wait but after its last check is found at the head of
\* that time point, before any region of it is visited.
C30_WaitChecksAbort ==
    [][/\ (pc = "waiting" /\ wait_left > 0 /\ pc' # pc) =>
            abort_boolean /\ pc' = "abort_acquisition"
       /\ (pc = "waiting" /\ wait_left > 0 /\ abort_boolean /\ wait_left' # wait_left) =>
            pc' = "abort_acquisition"
       /\ (pc = "waiting" /\ wait_left = 0 /\ pc' # pc) =>
            /\ pc' = "time_point"
            /\ num_time_points' = num_time_points + 1
            /\ num_time_points' < settings_num_time_points
            /\ devices' = devices
       /\ (pc = "time_point" /\ num_time_points >= 1 /\ abort_boolean
             /\ num_time_points < settings_num_time_points /\ pc' # pc) =>
            pc' = "abort_acquisition" /\ devices' = devices]_vars

\* the abort was confirmed during the wait after the first of two time points and
\* the run has ended in Aborted without a capture of the second
C30_Witness ==
    /\ pc = "aborted"
    /\ abort_set_at = "waiting"
    /\ num_time_points = 0
    /\ settings_num_time_points = 2
    /\ \A i \in 1..Len(opened) : opened[i][5] = 1

\* C30 as stated: whenever the flag is set while the run is in the wait, the next
\* step of the run goes to abort_acquisition, never to the next time point; with
\* the flag unset the wait is left for the next time point when no time is left.
C30_AbortInWaitAsStated ==
    [][/\ (pc = "waiting" /\ abort_boolean /\ pc' # pc) => pc' = "abort_acquisition"
       /\ (pc = "waiting" /\ ~abort_boolean /\ pc' # pc) =>
            wait_left = 0 /\ pc' = "time_point"]_vars

InMoveStage ==
    pc \in {"move_253", "move_254", "move_255", "move_256",
            "move_258", "move_259", "move_260", "move_261"}

\* C31: during move_stage the X/Y stage and the Z stage are never in motion
\* together; the second axis group is commanded only when the first is idle at
\* its target; Z is commanded first exactly when the X read at entry is greater
\* than the target X; move_stage returns with both groups idle at the target.
C31_OneAxisGroupAtATime ==
    (InMoveStage \/ pc = "move_returned") =>
        /\ ~(hw.xy_busy /\ hw.z_busy)
        /\ Len(hw.commanded) >= 1 =>
             hw.commanded[1] = IF hw.call.current_x_position > hw.call.x_position
                               THEN "z" ELSE "xy"
        /\ Len(hw.commanded) = 2 =>
             /\ hw.commanded[2] # hw.commanded[1]
             /\ IF hw.commanded[1] = "z"
                THEN hw.z_position = hw.call.z_position
                ELSE hw.xy_position = <<hw.call.x_position, hw.call.y_position>>
        /\ pc = "move_returned" =>
             /\ Len(hw.commanded) = 2
             /\ ~hw.xy_busy /\ ~hw.z_busy
             /\ hw.xy_position = <<hw.call.x_position, hw.call.y_position>>
             /\ hw.z_position = hw.call.z_position

\* move_stage has returned from a call that found the stage at a greater X than
\* the target and at another Z: Z was moved first, then X/Y
C31_Witness ==
    /\ pc = "move_returned"
    /\ hw.call.current_x_position > hw.call.x_position
    /\ hw.commanded = <<"z", "xy">>
    /\ hw.z_position = hw.call.z_position
    /\ hw.xy_position[1] = hw.call.x_position

\* the datastore in progress belongs to a snap or video channel whose frames have
\* been asked of the camera
ChannelAcquired == data.path # <<>> /\ data.mode # <<>> /\ data.path[3] \in {"snap", "video"}

\* C32: the frames of a snap or video channel are taken in Default mode at the
\* region's exposure of that modality when the channel is BF; otherwise with the
\* lightsheet readout task and camera properties when the run's lightsheet flag is
\* set, and with the continuous scan task running when it is not.
C32_ModeSelection ==
    ChannelAcquired =>
        LET channel == data.path[4]
            exposure == IF data.path[3] = "snap" THEN "snap_exposure_time"
                        ELSE "video_exposure_time"
        IN  IF channel = "BF"
            THEN data.mode[1] = "Default" /\ data.mode[2] = exposure
            ELSE IF acquisition_settings.lightsheet_mode_boolean
            THEN data.mode[1] = "LSRM" /\ data.mode[3] = "lightsheet_readout"
            ELSE data.mode[3] = "continuous_scan"

\* C33: the lightsheet framerate is always a positive integer of at most 40, so
\* that no snap or video channel of a run in lightsheet mode divides by zero when
\* it derives its framerate and programs the PLC with it.
C33_FrameratePositive ==
    /\ hw.lightsheet_readout_framerate \in 1..FramerateCeiling
    /\ crash # "division_by_zero"

\* no slot of the row holds a region after an unset slot
Contiguous(row) ==
    \A i \in DOMAIN row : row[i].committed => \A j \in 0..(i - 1) : row[j].committed

\* the regions of a row in the order of their indices
RowRegions(row) ==
    SelectSeq([i \in 1..Cardinality(DOMAIN row) |-> row[i - 1]], LAMBDA x : x.committed)

\* seq without its element number k
Without(seq, k) == SubSeq(seq, 1, k - 1) \o SubSeq(seq, k + 1, Len(seq))

\* a call of remove_region_settings, for the slot (sample_num', region_num')
RemoveCalled == pc = "dialog" /\ acquisition_settings' # acquisition_settings

\* C34: a removal from a sample whose regions occupy indices 0..n-1 leaves that
\* sample without a hole, and, when other regions of the sample remain in it,
\* leaves them at indices 0..n-2 in their former order.
C34_RegionsStayContiguous ==
    [][(RemoveCalled /\ Contiguous(acquisition_settings.region_settings_list[sample_num'])) =>
          LET before == acquisition_settings.region_settings_list[sample_num']
              after == acquisition_settings'.region_settings_list[sample_num']
          IN  /\ Contiguous(after)
              /\ Len(RowRegions(before)) >= 2 =>
                    RowRegions(after) = Without(RowRegions(before), region_num' + 1)]_vars

\* the regions a grid holds
GridRegions(list) ==
    { list[s][r] : s \in DOMAIN list, r \in DOMAIN list[0] } \ {Unset}

\* the number of slots of a grid that hold a region
GridCount(list) ==
    Cardinality({ slot \in (DOMAIN list) \X (DOMAIN list[0]) :
                    list[slot[1]][slot[2]].committed })

HoldsRegions(row) == \E r \in DOMAIN row : row[r].committed

\* no sample holding regions follows a sample holding none
SamplesContiguous(list) ==
    \A s \in DOMAIN list : HoldsRegions(list[s]) =>
        \A t \in 0..(s - 1) : HoldsRegions(list[t])

\* a grid as the dialog builds it
WellFormed(list) ==
    /\ SamplesContiguous(list)
    /\ \A s \in DOMAIN list : Contiguous(list[s])

\* C35: on a grid as the dialog builds it, every removal returns without an
\* error, keeps the dimensions of the grid, and keeps every region but the removed
\* one, once each; a removal of the only region of a sample that is followed by a
\* sample with regions moves every later sample down by one, so that the samples
\* holding regions stay contiguous.
C35_SampleShiftDown ==
    [][(RemoveCalled /\ WellFormed(acquisition_settings.region_settings_list)) =>
          LET before == acquisition_settings.region_settings_list
              after == acquisition_settings'.region_settings_list
              s == sample_num'
              last == RemoveSampleDim - 1
          IN  /\ crash' = "none"
              /\ DOMAIN after = DOMAIN before
              /\ \A t \in DOMAIN after : DOMAIN after[t] = DOMAIN before[t]
              /\ GridRegions(after) = GridRegions(before) \ {before[s][region_num']}
              /\ GridCount(after) = GridCount(before) - 1
              /\ SamplesContiguous(after)
              /\ (Len(RowRegions(before[s])) = 1 /\ s < last /\ HoldsRegions(before[s + 1])) =>
                    /\ \A t \in s..(last - 1) : after[t] = before[t + 1]
                    /\ ~HoldsRegions(after[last])]_vars

\* C36: a datastore is opened only when the one before it is closed; no datastore
\* is open when a capture function has returned, nor when the run has published
\* "Aborted" or the success status.
C36_OneDatastoreOpen ==
    [][/\ opened' # opened => ~data.open
       /\ pc' \in Returns => ~data'.open
       /\ pc' \in {"abort_acquisition", "aborted", "successful"} => ~data'.open]_vars

\* a run aborted in the drain loop of its second video channel: two datastores
\* were opened and none is open
C36_Witness ==
    /\ pc = "aborted"
    /\ abort_set_at \in {"video_drain", "video_running"}
    /\ Len(opened) = 2
    /\ opened[2][3] = "video"
    /\ data.path = opened[2]
    /\ ~data.open

\* C37: close is never called on a datastore that is already closed, and the
\* datastore of a capture function that has returned, or of a run that has
\* published its status, has been closed once.
C37_ClosedExactlyOnce ==
    /\ data.closes <= 1
    /\ (pc \in Returns \cup {"aborted", "successful"} /\ data.path # <<>>) => data.closes = 1

\* C38: once the flag has been confirmed during a run, at most one further
\* datastore is opened, and so at most one further frame sequence started (a
\* sequence is started only for a datastore just opened), before abort_acquisition
\* begins; none is opened after that.
C38_BoundedAbortResponse ==
    AbortRequestedInRun => Len(opened) <= opened_at_abort + 1

\* the flag was confirmed while the second snap channel of a region was about to
\* be captured, with more channels and regions to come: that channel was
\* captured, nothing after it, and the run has been aborted
C38_Witness ==
    /\ pc = "aborted"
    /\ abort_set_at = "snap_channel"
    /\ opened_at_abort = 1
    /\ Len(opened) = 2
    /\ opened[2][1] = 1 /\ opened[2][2] = 1
    /\ acquisition_settings.region_settings_list[0][1].committed

SuccessStatus == "Your acquisition was successful!"

\* C39: a run that has ended has published one terminal status, "Aborted" or the
\* success status; "Aborted" is the status exactly when abort_acquisition was
\* executed; after the end the worker commands no hardware and writes no status.
C39_OneTerminalStatus ==
    [][/\ Terminal' =>
            /\ acquisition_label' \in {"Aborted", SuccessStatus}
            /\ acquisition_label' = "Aborted" <=> abort_count' >= 1
       /\ acquisition_label = "Aborted" => acquisition_label' = "Aborted"
       /\ acquisition_label = SuccessStatus => acquisition_label' = SuccessStatus
       /\ Terminal => pc' = pc /\ hw' = hw /\ status' = status]_vars

\* C40: a run of a finite plan whose worker is scheduled fairly eventually
\* publishes its terminal status, whether the camera delivers all the frames of a
\* sequence or stalls before.
C40_RunTerminates == <>(pc \in {"successful", "aborted"})

====
